---- MODULE Spec2Model ----
(***************************************************************************)
(* Model of the Traefik annotation codec of the ingress service            *)
(* (src/src/services/ingress.service.ts): buildTraefikAnnotations turns a  *)
(* validated create input into the annotation map of the ingress, and      *)
(* parseTraefikConfig recovers the structured configuration from the       *)
(* annotation map of an ingress read from the cluster.  The same codec is  *)
(* also modelled on a heap of objects, for callers that share their input  *)
(* (SpecCallers).  The start-up of the process (index.ts, config/index.ts  *)
(* and src/src/config/k8s.config.ts) is the specification SpecProcess,     *)
(* and FairProcess under the scheduling of the event loop.  The            *)
(* configuration module (config/index.ts) is modelled twice: one call of   *)
(* validateConfig on an environment (SpecValidate), and calls of           *)
(* getConfig, loadConfig and resetConfig in any order (SpecConfig).  One   *)
(* request to the HTTP API, through its controller, the service, the       *)
(* cluster call and errorMiddleware, is the specification SpecHttp.        *)
(*                                                                         *)
(* JavaScript strings are sequences of one-character strings, so that      *)
(* join, split, String and parseInt are computed and not assumed.          *)
(* An optional value (a property that may be undefined) is a sequence of   *)
(* length 0 (undefined) or 1 (the value).                                  *)
(***************************************************************************)
EXTENDS Integers, Sequences, FiniteSets, TLC

\* one request to the ingress service
VARIABLES op, input, annotations, traefik, pc, items, responses

requestVars == <<op, input, annotations, traefik, pc, items, responses>>

\* the objects of callers that share one input: the heap of objects, the
\* shared input, the maps returned by encode calls and the results of
\* decode calls
VARIABLES heap, shared, returned, decoded

callerVars == <<heap, shared, returned, decoded>>

\* the process starting up: the function entered, the outcome of parsing
\* the environment, the cached configuration, the timeoutMs argument, the
\* position of startServer, initializeK8sClients, verifyK8sConnectivity
\* and checkK8sHealth, the listNamespace promise, the timer, the exit
\* code and the milestones logged
VARIABLES entry, parsedEnv, configInstance, timeoutMs, server, init, verify,
          health, api, timer, exitCode, log

processVars ==
  <<entry, parsedEnv, configInstance, timeoutMs, server, init, verify,
    health, api, timer, exitCode, log>>

\* the process variables other than the cached configuration
startupVars ==
  <<entry, parsedEnv, timeoutMs, server, init, verify, health, api, timer,
    exitCode, log>>

\* the configuration module: the variables of process.env, what the last
\* call returned or threw, and the number of calls made (configInstance,
\* declared above, is the module's cached configuration)
VARIABLES processEnv, result, calls

configVars == <<processEnv, result, calls>>

\* one request to the HTTP API: the route and the body of the request,
\* the position of its handler, whether the cluster can be reached, the
\* calls made to the service layer and the create calls sent to the
\* cluster, the errors passed to next by the handler, the calls of next
\* by errorMiddleware and the responses sent
VARIABLES route, reqBody, handler, clusterHealthy, serviceCalls,
          clusterCalls, forwarded, nextCalls, sent

httpVars ==
  <<route, reqBody, handler, clusterHealthy, serviceCalls, clusterCalls,
    forwarded, nextCalls, sent>>

vars == <<requestVars, callerVars, processVars, configVars, httpVars>>

(* ------------------------------------------------------------------ *)
(* Bounds of the model                                                 *)
(* ------------------------------------------------------------------ *)

\* longest entryPoints / middlewares array of a create input
MaxLen == 2
\* most keys in the annotations a client sends with a create input
MaxUserKeys == 1
\* most keys in the annotations of an ingress read from the cluster
MaxAnnKeys == 2
\* most calls the callers sharing one input make
MaxCalls == 3
\* most environment variables set when validateConfig is called
MaxEnvVars == 2
\* most calls of the configuration module's functions
MaxConfigCalls == 4

(* ------------------------------------------------------------------ *)
(* Optional values                                                     *)
(* ------------------------------------------------------------------ *)

None == <<>>
Some(v) == <<v>>
IsSome(o) == Len(o) = 1
Val(o) == o[1]

(* ------------------------------------------------------------------ *)
(* Strings                                                             *)
(* ------------------------------------------------------------------ *)

Empty == <<>>
S_true == <<"t", "r", "u", "e">>
S_false == <<"f", "a", "l", "s", "e">>
S_traefik == <<"t", "r", "a", "e", "f", "i", "k">>
S_traefik_sticky ==
  <<"t", "r", "a", "e", "f", "i", "k", "_", "s", "t", "i", "c", "k", "y">>
S_nginx == <<"n", "g", "i", "n", "x">>
S_websecure == <<"w", "e", "b", "s", "e", "c", "u", "r", "e">>
S_letsencrypt == <<"l", "e", "t", "s", "e", "n", "c", "r", "y", "p", "t">>
S_auth == <<"a", "u", "t", "h">>
S_a_comma_b == <<"a", ",", "b">>
S_100 == <<"1", "0", "0">>
S_12abc == <<"1", "2", "a", "b", "c">>
S_abc == <<"a", "b", "c">>
S_sp_7 == <<" ", "7">>
S_minus == <<"-">>
Comma == <<",">>

(* ------------------------------------------------------------------ *)
(* Annotation keys                                                     *)
(* ------------------------------------------------------------------ *)

K_class == "kubernetes.io/ingress.class"
K_entrypoints == "traefik.ingress.kubernetes.io/router.entrypoints"
K_middlewares == "traefik.ingress.kubernetes.io/router.middlewares"
K_certresolver == "traefik.ingress.kubernetes.io/router.tls.certresolver"
K_tls == "traefik.ingress.kubernetes.io/router.tls"
K_priority == "traefik.ingress.kubernetes.io/router.priority"
K_sticky == "traefik.ingress.kubernetes.io/service.sticky.cookie"
K_sticky_name == "traefik.ingress.kubernetes.io/service.sticky.cookie.name"
K_passhostheader == "traefik.ingress.kubernetes.io/service.passhostheader"
K_other == "example.com/owner"

DerivedKeys ==
  {K_entrypoints, K_middlewares, K_certresolver, K_tls, K_priority,
   K_sticky, K_sticky_name, K_passhostheader}

AllKeys == DerivedKeys \cup {K_class, K_other}

(* ------------------------------------------------------------------ *)
(* JavaScript built-ins used by the codec                              *)
(* ------------------------------------------------------------------ *)

\* a JavaScript number: an integer or NaN
Num(n) == [nan |-> FALSE, n |-> n]
NaN == [nan |-> TRUE, n |-> 0]

\* Array.prototype.join(sep)
RECURSIVE join(_, _)
join(arr, sep) ==
  IF Len(arr) = 0 THEN Empty
  ELSE IF Len(arr) = 1 THEN arr[1]
  ELSE arr[1] \o sep \o join(Tail(arr), sep)

\* does sep occur in str at position i
MatchAt(str, sep, i) ==
  /\ i + Len(sep) - 1 <= Len(str)
  /\ SubSeq(str, i, i + Len(sep) - 1) = sep

\* String.prototype.split(sep), sep a non-empty string
RECURSIVE split(_, _)
split(str, sep) ==
  LET hits == {i \in 1..Len(str) : MatchAt(str, sep, i)}
  IN IF hits = {} THEN <<str>>
     ELSE LET i == CHOOSE h \in hits : \A g \in hits : h <= g
          IN <<SubSeq(str, 1, i - 1)>>
               \o split(SubSeq(str, i + Len(sep), Len(str)), sep)

DigitChars == <<"0", "1", "2", "3", "4", "5", "6", "7", "8", "9">>
IsDigit(c) == \E d \in 1..10 : DigitChars[d] = c
DigitValue(c) == (CHOOSE d \in 1..10 : DigitChars[d] = c) - 1

RECURSIVE NatToString(_)
NatToString(n) ==
  IF n < 10 THEN <<DigitChars[n + 1]>>
  ELSE NatToString(n \div 10) \o <<DigitChars[(n % 10) + 1]>>

\* String(n) for an integer n
StringOfNumber(n) ==
  IF n < 0 THEN S_minus \o NatToString(0 - n) ELSE NatToString(n)

\* String(b) for a boolean b
StringOfBoolean(b) == IF b THEN S_true ELSE S_false

RECURSIVE SkipWhiteSpace(_)
SkipWhiteSpace(str) ==
  IF Len(str) > 0 /\ str[1] = " " THEN SkipWhiteSpace(Tail(str)) ELSE str

RECURSIVE DigitPrefix(_)
DigitPrefix(str) ==
  IF Len(str) > 0 /\ IsDigit(str[1])
  THEN <<str[1]>> \o DigitPrefix(Tail(str))
  ELSE Empty

RECURSIVE DigitsValue(_)
DigitsValue(ds) ==
  IF Len(ds) = 0 THEN 0
  ELSE 10 * DigitsValue(SubSeq(ds, 1, Len(ds) - 1)) + DigitValue(ds[Len(ds)])

\* parseInt(str, 10)
parseInt(str) ==
  LET s1 == SkipWhiteSpace(str)
      signed == Len(s1) > 0 /\ s1[1] \in {"+", "-"}
      negative == Len(s1) > 0 /\ s1[1] = "-"
      ds == DigitPrefix(IF signed THEN Tail(s1) ELSE s1)
  IN IF Len(ds) = 0 THEN NaN
     ELSE Num(IF negative THEN 0 - DigitsValue(ds) ELSE DigitsValue(ds))

\* annotations[k]: the value, or undefined when the key is missing
Get(a, k) == IF k \in DOMAIN a THEN Some(a[k]) ELSE None

\* annotations[k] = v
Put(a, k, v) == [x \in (DOMAIN a) \cup {k} |-> IF x = k THEN v ELSE a[x]]

\* the empty object {}
EmptyMap == [x \in {} |-> Empty]

(* ------------------------------------------------------------------ *)
(* The structured configuration (TraefikConfig)                        *)
(* ------------------------------------------------------------------ *)

\* const config: TraefikConfig = {}
EmptyConfig ==
  [entryPoints |-> None, middlewares |-> None, certResolver |-> None,
   priority |-> None, sticky |-> None, passHostHeader |-> None]

\* Object.keys(config).length
ObjectKeysLength(config) ==
  (IF IsSome(config.entryPoints) THEN 1 ELSE 0)
  + (IF IsSome(config.middlewares) THEN 1 ELSE 0)
  + (IF IsSome(config.certResolver) THEN 1 ELSE 0)
  + (IF IsSome(config.priority) THEN 1 ELSE 0)
  + (IF IsSome(config.sticky) THEN 1 ELSE 0)
  + (IF IsSome(config.passHostHeader) THEN 1 ELSE 0)

(* ------------------------------------------------------------------ *)
(* buildTraefikAnnotations                                             *)
(* ------------------------------------------------------------------ *)

\* { ...a, ...u } for an optional object u
Spread(a, u) ==
  IF IsSome(u)
  THEN [x \in (DOMAIN a) \cup (DOMAIN Val(u)) |->
          IF x \in DOMAIN Val(u) THEN Val(u)[x] ELSE a[x]]
  ELSE a

\* { "kubernetes.io/ingress.class": "traefik", ...input.annotations }
BaseAnnotations(userAnnotations) ==
  Spread(Put(EmptyMap, K_class, S_traefik), userAnnotations)

\* if (traefik.entryPoints?.length) ...
SetEntryPoints(a, cfg) ==
  IF IsSome(cfg.entryPoints) /\ Len(Val(cfg.entryPoints)) > 0
  THEN Put(a, K_entrypoints, join(Val(cfg.entryPoints), Comma))
  ELSE a

\* if (traefik.middlewares?.length) ...
SetMiddlewares(a, cfg) ==
  IF IsSome(cfg.middlewares) /\ Len(Val(cfg.middlewares)) > 0
  THEN Put(a, K_middlewares, join(Val(cfg.middlewares), Comma))
  ELSE a

\* a bug that forgets the companion router.tls flag
SetCertResolver_noTls(a, cfg) ==
  IF IsSome(cfg.certResolver) /\ Val(cfg.certResolver) # Empty
  THEN Put(a, K_certresolver, Val(cfg.certResolver))
  ELSE a

\* if (traefik.certResolver) ...: an empty string is falsy
SetCertResolver(a, cfg) ==
  IF IsSome(cfg.certResolver) /\ Val(cfg.certResolver) # Empty
  THEN Put(Put(a, K_certresolver, Val(cfg.certResolver)), K_tls, S_true)
  ELSE a

\* a bug that tests the priority for truthiness, dropping priority 0
SetPriority_truthy(a, cfg) ==
  IF IsSome(cfg.priority) /\ Val(cfg.priority).n # 0
  THEN Put(a, K_priority, StringOfNumber(Val(cfg.priority).n))
  ELSE a

\* if (traefik.priority !== undefined) ...
SetPriority(a, cfg) ==
  IF IsSome(cfg.priority)
  THEN Put(a, K_priority, StringOfNumber(Val(cfg.priority).n))
  ELSE a

\* a bug that treats sticky like passHostHeader, emitting for false too
SetSticky_whenDefined(a, cfg) ==
  IF IsSome(cfg.sticky)
  THEN Put(Put(a, K_sticky, StringOfBoolean(Val(cfg.sticky))),
           K_sticky_name, S_traefik_sticky)
  ELSE a

\* if (traefik.sticky) ...
SetSticky(a, cfg) ==
  IF IsSome(cfg.sticky) /\ Val(cfg.sticky)
  THEN Put(Put(a, K_sticky, S_true), K_sticky_name, S_traefik_sticky)
  ELSE a

\* if (traefik.passHostHeader !== undefined) ...
SetPassHostHeader(a, cfg) ==
  IF IsSome(cfg.passHostHeader)
  THEN Put(a, K_passhostheader, StringOfBoolean(Val(cfg.passHostHeader)))
  ELSE a

\* the body of if (input.traefik) { ... }
OverlayTraefik(a, cfg) ==
  SetPassHostHeader(
    SetSticky(
      SetPriority(
        SetCertResolver(
          SetMiddlewares(
            SetEntryPoints(a, cfg), cfg), cfg), cfg), cfg), cfg)

\* a bug that merges the user's annotations after the derived keys
buildTraefikAnnotations_userLast(in) ==
  LET a == Put(EmptyMap, K_class, S_traefik)
  IN Spread(IF IsSome(in.traefik) THEN OverlayTraefik(a, Val(in.traefik))
            ELSE a,
            in.annotations)

buildTraefikAnnotations(in) ==
  LET a == BaseAnnotations(in.annotations)
  IN IF IsSome(in.traefik) THEN OverlayTraefik(a, Val(in.traefik)) ELSE a

(* ------------------------------------------------------------------ *)
(* parseTraefikConfig                                                  *)
(* ------------------------------------------------------------------ *)

\* a bug that keeps the annotation value as the only entry
ParseEntryPoints_noSplit(config, a) ==
  LET v == Get(a, K_entrypoints)
  IN IF IsSome(v) /\ Val(v) # Empty
     THEN [config EXCEPT !.entryPoints = Some(<<Val(v)>>)]
     ELSE config

\* if (entryPoints) config.entryPoints = entryPoints.split(",")
ParseEntryPoints(config, a) ==
  LET v == Get(a, K_entrypoints)
  IN IF IsSome(v) /\ Val(v) # Empty
     THEN [config EXCEPT !.entryPoints = Some(split(Val(v), Comma))]
     ELSE config

\* if (middlewares) config.middlewares = middlewares.split(",")
ParseMiddlewares(config, a) ==
  LET v == Get(a, K_middlewares)
  IN IF IsSome(v) /\ Val(v) # Empty
     THEN [config EXCEPT !.middlewares = Some(split(Val(v), Comma))]
     ELSE config

\* a bug that decodes the resolver only next to the router.tls flag
ParseCertResolver_withTls(config, a) ==
  LET v == Get(a, K_certresolver)
  IN IF IsSome(v) /\ Val(v) # Empty /\ Get(a, K_tls) = Some(S_true)
     THEN [config EXCEPT !.certResolver = Some(Val(v))]
     ELSE config

\* if (certResolver) config.certResolver = certResolver
ParseCertResolver(config, a) ==
  LET v == Get(a, K_certresolver)
  IN IF IsSome(v) /\ Val(v) # Empty
     THEN [config EXCEPT !.certResolver = Some(Val(v))]
     ELSE config

\* a bug that tests the parsed number, not the string, dropping 0
ParsePriority_nonZero(config, a) ==
  LET v == Get(a, K_priority)
  IN IF IsSome(v) /\ Val(v) # Empty /\ parseInt(Val(v)) # Num(0)
     THEN [config EXCEPT !.priority = Some(parseInt(Val(v)))]
     ELSE config

\* if (priority) config.priority = parseInt(priority, 10)
ParsePriority(config, a) ==
  LET v == Get(a, K_priority)
  IN IF IsSome(v) /\ Val(v) # Empty
     THEN [config EXCEPT !.priority = Some(parseInt(Val(v)))]
     ELSE config

\* a bug that reads sticky the way passHostHeader is read
ParseSticky_compared(config, a) ==
  LET v == Get(a, K_sticky)
  IN IF IsSome(v) /\ Val(v) # Empty
     THEN [config EXCEPT !.sticky = Some(Val(v) = S_true)]
     ELSE config

\* if (sticky === "true") config.sticky = true
ParseSticky(config, a) ==
  LET v == Get(a, K_sticky)
  IN IF IsSome(v) /\ Val(v) = S_true
     THEN [config EXCEPT !.sticky = Some(TRUE)]
     ELSE config

\* a bug that reads passHostHeader the way sticky is read
ParsePassHostHeader_trueOnly(config, a) ==
  LET v == Get(a, K_passhostheader)
  IN IF IsSome(v) /\ Val(v) = S_true
     THEN [config EXCEPT !.passHostHeader = Some(TRUE)]
     ELSE config

\* if (passHost) config.passHostHeader = passHost === "true"
ParsePassHostHeader(config, a) ==
  LET v == Get(a, K_passhostheader)
  IN IF IsSome(v) /\ Val(v) # Empty
     THEN [config EXCEPT !.passHostHeader = Some(Val(v) = S_true)]
     ELSE config

\* config after the six reads
ParsedConfig(a) ==
  ParsePassHostHeader(
    ParseSticky(
      ParsePriority(
        ParseCertResolver(
          ParseMiddlewares(
            ParseEntryPoints(EmptyConfig, a), a), a), a), a), a)

\* a bug that returns the config object even when it has no key
parseTraefikConfig_always(annotationsOpt) ==
  IF ~IsSome(annotationsOpt) THEN None
  ELSE Some(ParsedConfig(Val(annotationsOpt)))

parseTraefikConfig(annotationsOpt) ==
  IF ~IsSome(annotationsOpt) THEN None
  ELSE LET config == ParsedConfig(Val(annotationsOpt))
       IN IF ObjectKeysLength(config) > 0 THEN Some(config) ELSE None

(* ------------------------------------------------------------------ *)
(* Requests                                                            *)
(* ------------------------------------------------------------------ *)

\* arrays of at most n entries drawn from S
Arrays(S, n) == UNION {[1..k -> S] : k \in 0..n}

\* objects with at most n keys drawn from Keys, values drawn from Vals
Maps(Keys, Vals, n) ==
  UNION {[D -> Vals] : D \in {S \in SUBSET Keys : Cardinality(S) <= n}}

\* an optional property over the set S
Optional(S) == {None} \cup {Some(v) : v \in S}

EntryPointNames == {Empty, S_websecure, S_a_comma_b}
MiddlewareNames == {Empty, S_auth}
CertResolverNames == {Empty, S_letsencrypt}
Priorities == {Num(0 - 5), Num(0), Num(100)}

\* values accepted by traefikConfigSchema
TraefikConfigs(eps, mws) ==
  [entryPoints : Optional(eps),
   middlewares : Optional(mws),
   certResolver : Optional(CertResolverNames),
   priority : Optional(Priorities),
   sticky : Optional(BOOLEAN),
   passHostHeader : Optional(BOOLEAN)]

\* annotation values a client sends
UserValues == {S_nginx}

\* create inputs with annotations {}, any configuration
PlainInputs ==
  [annotations : {Some(EmptyMap)},
   traefik : Optional(TraefikConfigs(Arrays(EntryPointNames, MaxLen),
                                     Arrays(MiddlewareNames, MaxLen)))]

\* create inputs without annotations or with annotations of their own,
\* arrays of at most one entry
AnnotatedInputs ==
  [annotations : Optional(Maps(AllKeys, UserValues, MaxUserKeys)),
   traefik : Optional(TraefikConfigs(Arrays({S_websecure}, 1),
                                     Arrays({S_auth}, 1)))]

\* the part of createIngressSchema the codec reads
CreateIngressInputs == PlainInputs \cup AnnotatedInputs

\* annotation values found on an ingress of the cluster
ClusterValues ==
  {Empty, S_true, S_false, S_100, S_abc, S_12abc, S_sp_7, S_a_comma_b}

\* ing.metadata?.annotations of an ingress read from the cluster
ClusterAnnotations == Optional(Maps(AllKeys, ClusterValues, MaxAnnKeys))

NoInput == [annotations |-> None, traefik |-> None]

\* annotation keys and values of the ingresses of a listed namespace
ListKeys ==
  {K_certresolver, K_sticky, K_passhostheader, K_tls, K_sticky_name, K_class}
ListValues == {S_true, S_false}
ListAnnotations == Optional(Maps(ListKeys, ListValues, MaxAnnKeys))

(* ------------------------------------------------------------------ *)
(* The state machine: one request to the ingress service               *)
(* ------------------------------------------------------------------ *)

\* no request is being served
NoRequest ==
  /\ op = "none"
  /\ input = NoInput
  /\ annotations = None
  /\ traefik = None
  /\ pc = "idle"
  /\ items = <<>>
  /\ responses = <<>>

\* no caller holds an object
NoCallers ==
  /\ heap = <<>>
  /\ shared = NoInput
  /\ returned = <<>>
  /\ decoded = <<>>

\* initializeK8sClients / verifyK8sConnectivity not called
NotInitializing ==
  [pc |-> "idle", clients |-> 0, caught |-> None, error |-> None]
NotVerifying ==
  [pc |-> "idle", timeout |-> None, caught |-> None, error |-> None]

\* the configuration module before any call
NoConfigCalls ==
  /\ processEnv = EmptyMap
  /\ result = None
  /\ calls = 0

\* no HTTP request
NoHttp ==
  /\ route = "none"
  /\ reqBody = [valid |-> TRUE, namespace |-> None]
  /\ handler = "idle"
  /\ clusterHealthy = TRUE
  /\ serviceCalls = 0
  /\ clusterCalls = <<>>
  /\ forwarded = <<>>
  /\ nextCalls = 0
  /\ sent = <<>>

\* no process is starting
NoProcess ==
  /\ entry = "none"
  /\ parsedEnv = None
  /\ configInstance = None
  /\ timeoutMs = None
  /\ server = "idle"
  /\ init = NotInitializing
  /\ verify = NotVerifying
  /\ health = "idle"
  /\ api = "none"
  /\ timer = "none"
  /\ exitCode = None
  /\ log = <<>>

Init ==
  /\ NoCallers
  /\ NoProcess
  /\ NoConfigCalls
  /\ NoHttp
  /\ pc = "start"
  /\ traefik = None
  /\ responses = <<>>
  /\ \/ /\ op = "create"
        /\ input \in CreateIngressInputs
        /\ annotations = None
        /\ items = <<>>
     \/ /\ op = "get"
        /\ input = NoInput
        /\ annotations \in ClusterAnnotations
        /\ items = <<>>
     \/ /\ op = "list"
        /\ input = NoInput
        /\ annotations = None
        /\ items \in ListAnnotations \X ListAnnotations

\* createIngress: the annotations are built, the cluster returns the
\* ingress as created and mapIngressToResponse parses its annotations
CreateIngress ==
  /\ pc = "start"
  /\ op = "create"
  /\ annotations' = Some(buildTraefikAnnotations(input))
  /\ traefik' = parseTraefikConfig(annotations')
  /\ pc' = "done"
  /\ UNCHANGED <<op, input, items, responses>>
  /\ UNCHANGED <<callerVars, processVars, configVars, httpVars>>

\* getIngress: mapIngressToResponse parses the annotations read
GetIngress ==
  /\ pc = "start"
  /\ op = "get"
  /\ traefik' = parseTraefikConfig(annotations)
  /\ pc' = "done"
  /\ UNCHANGED <<op, input, annotations, items, responses>>
  /\ UNCHANGED <<callerVars, processVars, configVars, httpVars>>

\* listIngresses: mapIngressToResponse parses the annotations of every
\* ingress of the namespace
ListIngresses ==
  /\ pc = "start"
  /\ op = "list"
  /\ responses' = [i \in DOMAIN items |-> parseTraefikConfig(items[i])]
  /\ pc' = "done"
  /\ UNCHANGED <<op, input, annotations, traefik, items>>
  /\ UNCHANGED <<callerVars, processVars, configVars, httpVars>>

Next == CreateIngress \/ GetIngress \/ ListIngresses

Spec == Init /\ [][Next]_vars

(* ------------------------------------------------------------------ *)
(* Vocabulary of the properties                                        *)
(* ------------------------------------------------------------------ *)

\* a create request has been answered
Created == pc = "done" /\ op = "create"
\* a read request has been answered
Fetched == pc = "done" /\ op = "get"

\* the annotation map built by the create request
Out == Val(annotations)
\* the client sent no annotations of its own (none, or {})
NoUserAnnotations ==
  ~IsSome(input.annotations) \/ DOMAIN Val(input.annotations) = {}
UserKeys ==
  IF IsSome(input.annotations) THEN DOMAIN Val(input.annotations) ELSE {}
HasConfig == IsSome(input.traefik)
Cfg == Val(input.traefik)

Pairs(a) == {<<k, a[k]>> : k \in DOMAIN a}

HasComma(str) == \E i \in 1..Len(str) : str[i] = ","

\* the entries of arr separated by commas, built from the right
RECURSIVE CommaList(_)
CommaList(arr) ==
  IF Len(arr) = 0 THEN <<>>
  ELSE IF Len(arr) = 1 THEN arr[1]
  ELSE CommaList(SubSeq(arr, 1, Len(arr) - 1)) \o <<",">> \o arr[Len(arr)]

\* the decimal strings of the priorities of the model, written out
Decimal(n) ==
  CASE n = 0 - 5 -> <<"-", "5">>
    [] n = 0 -> <<"0">>
    [] n = 100 -> <<"1", "0", "0">>

NonEmptyArray(o) == IsSome(o) /\ Len(Val(o)) > 0
Present(o) == IsSome(o)
PresentNonEmpty(o) == IsSome(o) /\ Val(o) # <<>>

\* the key/value pairs the encoder's table derives from cfg, certSet telling
\* whether the certResolver row applies
TablePairs(cfg, certSet) ==
  (IF NonEmptyArray(cfg.entryPoints)
   THEN {<<K_entrypoints, CommaList(Val(cfg.entryPoints))>>} ELSE {})
  \cup (IF NonEmptyArray(cfg.middlewares)
        THEN {<<K_middlewares, CommaList(Val(cfg.middlewares))>>} ELSE {})
  \cup (IF certSet
        THEN {<<K_certresolver, Val(cfg.certResolver)>>, <<K_tls, S_true>>}
        ELSE {})
  \cup (IF Present(cfg.priority)
        THEN {<<K_priority, Decimal(Val(cfg.priority).n)>>} ELSE {})
  \cup (IF cfg.sticky = Some(TRUE)
        THEN {<<K_sticky, S_true>>, <<K_sticky_name, S_traefik_sticky>>}
        ELSE {})
  \cup (IF Present(cfg.passHostHeader)
        THEN {<<K_passhostheader,
                IF Val(cfg.passHostHeader) THEN S_true ELSE S_false>>}
        ELSE {})

\* the table with certResolver counted as set whenever it is present
TableAsClaimed ==
  IF HasConfig THEN TablePairs(Cfg, Present(Cfg.certResolver)) ELSE {}
\* the table with certResolver counted as set when it is a non-empty string
TableNonEmptyCert ==
  IF HasConfig THEN TablePairs(Cfg, PresentNonEmpty(Cfg.certResolver)) ELSE {}

ScenarioConfig ==
  [entryPoints |-> Some(<<S_websecure>>), middlewares |-> None,
   certResolver |-> Some(S_letsencrypt), priority |-> Some(Num(100)),
   sticky |-> Some(TRUE), passHostHeader |-> Some(TRUE)]

ScenarioPairs ==
  {<<K_class, <<"t", "r", "a", "e", "f", "i", "k">>>>,
   <<K_entrypoints, <<"w", "e", "b", "s", "e", "c", "u", "r", "e">>>>,
   <<K_certresolver, <<"l", "e", "t", "s", "e", "n", "c", "r", "y", "p", "t">>>>,
   <<K_tls, <<"t", "r", "u", "e">>>>,
   <<K_priority, <<"1", "0", "0">>>>,
   <<K_sticky, <<"t", "r", "u", "e">>>>,
   <<K_sticky_name,
     <<"t", "r", "a", "e", "f", "i", "k", "_", "s", "t", "i", "c", "k", "y">>>>,
   <<K_passhostheader, <<"t", "r", "u", "e">>>>}

(* ------------------------------------------------------------------ *)
(* C1                                                                  *)
(* ------------------------------------------------------------------ *)

\* C1: whatever annotations the client sends and whether or not a
\* configuration is given, the built map holds
\* "kubernetes.io/ingress.class" = "traefik".
C1_FixedKeyNeverOverridden ==
  Created => Get(Out, K_class) = Some(S_traefik)

(* ------------------------------------------------------------------ *)
(* C2                                                                  *)
(* ------------------------------------------------------------------ *)

\* C2 as stated: without user annotations the built map is exactly the
\* fixed key plus the table's pairs for the fields that are set, a
\* certResolver counting as set whenever it is present.
C2_ExactMapAsClaimed ==
  Created /\ NoUserAnnotations =>
    Pairs(Out) = {<<K_class, S_traefik>>} \cup TableAsClaimed

\* C2 amended: without user annotations the built map is exactly the fixed
\* key plus the table's pairs, the certResolver row applying only to a
\* non-empty certResolver; the end-to-end scenario yields the eight pairs.
C2_ExactMap ==
  Created /\ NoUserAnnotations =>
    /\ Pairs(Out) = {<<K_class, S_traefik>>} \cup TableNonEmptyCert
    /\ input.traefik = Some(ScenarioConfig) => Pairs(Out) = ScenarioPairs

C2_Witness ==
  /\ Created
  /\ NoUserAnnotations
  /\ input.traefik = Some(ScenarioConfig)
  /\ Cardinality(DOMAIN Out) = 8

(* ------------------------------------------------------------------ *)
(* C3                                                                  *)
(* ------------------------------------------------------------------ *)

\* the arrays of the decoded configuration, undefined when it is absent
DecodedEntryPoints == IF IsSome(traefik) THEN Val(traefik).entryPoints ELSE None
DecodedMiddlewares == IF IsSome(traefik) THEN Val(traefik).middlewares ELSE None

\* no entry holds a comma and the array is not the single empty string
Splittable(arr) ==
  /\ \A i \in 1..Len(arr) : ~HasComma(arr[i])
  /\ arr # <<(<<>>)>>

\* C3 as stated: without user annotations every non-empty entryPoints
\* array, and every non-empty middlewares array, is decoded back to the
\* same array.
C3_ArrayRoundTripAsClaimed ==
  Created /\ NoUserAnnotations /\ HasConfig =>
    /\ NonEmptyArray(Cfg.entryPoints) =>
         DecodedEntryPoints = Cfg.entryPoints
    /\ NonEmptyArray(Cfg.middlewares) =>
         DecodedMiddlewares = Cfg.middlewares

\* C3 amended: the round trip holds for every non-empty array none of whose
\* entries holds a comma and that is not the single empty string.
C3_ArrayRoundTrip ==
  Created /\ NoUserAnnotations /\ HasConfig =>
    /\ NonEmptyArray(Cfg.entryPoints) /\ Splittable(Val(Cfg.entryPoints)) =>
         DecodedEntryPoints = Cfg.entryPoints
    /\ NonEmptyArray(Cfg.middlewares) /\ Splittable(Val(Cfg.middlewares)) =>
         DecodedMiddlewares = Cfg.middlewares

C3_Witness ==
  /\ Created
  /\ NoUserAnnotations
  /\ HasConfig
  /\ Cfg.entryPoints = Some(<<S_websecure, S_websecure>>)
  /\ Cfg.middlewares = Some(<<S_auth, <<>>>>)
  /\ IsSome(traefik)
  /\ Val(traefik).entryPoints = Some(<<S_websecure, S_websecure>>)
  /\ Val(traefik).middlewares = Some(<<S_auth, <<>>>>)

(* ------------------------------------------------------------------ *)
(* C4                                                                  *)
(* ------------------------------------------------------------------ *)

SomeFieldSet(c) ==
  \/ IsSome(c.entryPoints)
  \/ IsSome(c.middlewares)
  \/ IsSome(c.certResolver)
  \/ IsSome(c.priority)
  \/ IsSome(c.sticky)
  \/ IsSome(c.passHostHeader)

\* C4: the decoded configuration is absent when the annotations are
\* absent, when they hold no Traefik key, and when they were built from a
\* configuration with every field unset and no user annotations; and a
\* decoded configuration that is present has at least one field set.
C4_PresenceInvariant ==
  pc = "done" =>
    /\ ~IsSome(annotations) => traefik = None
    /\ IsSome(annotations) /\ (DOMAIN Val(annotations)) \cap DerivedKeys = {}
         => traefik = None
    /\ op = "create" /\ NoUserAnnotations
         /\ (HasConfig => ~SomeFieldSet(Cfg))
         => traefik = None
    /\ IsSome(traefik) => SomeFieldSet(Val(traefik))

C4_Witness ==
  /\ Created
  /\ NoUserAnnotations
  /\ HasConfig
  /\ ~SomeFieldSet(Cfg)
  /\ IsSome(annotations)
  /\ traefik = None

(* ------------------------------------------------------------------ *)
(* C5                                                                  *)
(* ------------------------------------------------------------------ *)

\* C5: without user annotations no derived Traefik key of the built map
\* carries the empty string.
C5_NoEmptyDerivedValue ==
  Created /\ NoUserAnnotations =>
    \A k \in (DOMAIN Out) \cap DerivedKeys : Out[k] # <<>>

(* ------------------------------------------------------------------ *)
(* C6                                                                  *)
(* ------------------------------------------------------------------ *)

\* every user key holds the table's value when the table derives it, and
\* the user's value when it is neither derived nor the fixed key
UserKeysMerged(table) ==
  \A k \in UserKeys :
    IF \E p \in table : p[1] = k
    THEN <<k, Out[k]>> \in table
    ELSE k # K_class => Out[k] = Val(input.annotations)[k]

\* C6 as stated: user annotations are merged first and the derived keys of
\* the fields that are set overlaid, a certResolver counting as set
\* whenever it is present.
C6_MergeThenOverlayAsClaimed ==
  Created => UserKeysMerged(TableAsClaimed)

\* C6 amended: the same, the certResolver keys being derived only from a
\* non-empty certResolver.
C6_MergeThenOverlay ==
  Created => UserKeysMerged(TableNonEmptyCert)

C6_Witness ==
  /\ Created
  /\ HasConfig
  /\ Cfg.priority = Some(Num(100))
  /\ K_priority \in UserKeys
  /\ Val(input.annotations)[K_priority] = S_nginx
  /\ Out[K_priority] = <<"1", "0", "0">>

(* ------------------------------------------------------------------ *)
(* C7                                                                  *)
(* ------------------------------------------------------------------ *)

\* C7: without user annotations a passHostHeader of true or false is
\* decoded back to the same boolean.
C7_PassHostHeaderRoundTrip ==
  Created /\ NoUserAnnotations /\ HasConfig =>
    \A b \in BOOLEAN :
      Cfg.passHostHeader = Some(b) =>
        /\ IsSome(traefik)
        /\ Val(traefik).passHostHeader = Some(b)

C7_Witness ==
  /\ Created
  /\ NoUserAnnotations
  /\ HasConfig
  /\ Cfg.passHostHeader = Some(FALSE)
  /\ IsSome(traefik)
  /\ Val(traefik).passHostHeader = Some(FALSE)

(* ------------------------------------------------------------------ *)
(* C8                                                                  *)
(* ------------------------------------------------------------------ *)

\* C8: without user annotations a sticky of false or no sticky at all
\* builds neither sticky key and is decoded as sticky unset; a sticky of
\* true builds both keys, the cookie name being "traefik_sticky".
C8_AsymmetricSticky ==
  Created =>
    /\ NoUserAnnotations /\ (HasConfig => Cfg.sticky # Some(TRUE)) =>
         /\ K_sticky \notin DOMAIN Out
         /\ K_sticky_name \notin DOMAIN Out
         /\ IsSome(traefik) => Val(traefik).sticky = None
    /\ HasConfig /\ Cfg.sticky = Some(TRUE) =>
         /\ Get(Out, K_sticky) = Some(<<"t", "r", "u", "e">>)
         /\ Get(Out, K_sticky_name) = Some(S_traefik_sticky)

C8_Witness ==
  /\ Created
  /\ NoUserAnnotations
  /\ HasConfig
  /\ Cfg.sticky = Some(FALSE)
  /\ Cfg.passHostHeader = Some(TRUE)
  /\ K_sticky \notin DOMAIN Out
  /\ IsSome(traefik)
  /\ Val(traefik).sticky = None

(* ------------------------------------------------------------------ *)
(* C9                                                                  *)
(* ------------------------------------------------------------------ *)

UserSuppliesTls == UserKeys \cap {K_certresolver, K_tls} # {}

\* C9 as stated: a certResolver that is set builds router.tls.certresolver
\* with its value and router.tls = "true"; without one, and without the
\* user supplying them, neither key is built.
C9_CertResolverAsClaimed ==
  Created =>
    /\ HasConfig /\ Present(Cfg.certResolver) =>
         /\ Get(Out, K_certresolver) = Cfg.certResolver
         /\ Get(Out, K_tls) = Some(S_true)
    /\ ~(HasConfig /\ Present(Cfg.certResolver)) /\ ~UserSuppliesTls =>
         /\ K_certresolver \notin DOMAIN Out
         /\ K_tls \notin DOMAIN Out

\* C9 amended: the two keys are built from a certResolver that is a
\* non-empty string; from one that is unset or the empty string, and
\* without the user supplying them, neither key is built.
C9_CertResolver ==
  Created =>
    /\ HasConfig /\ PresentNonEmpty(Cfg.certResolver) =>
         /\ Get(Out, K_certresolver) = Cfg.certResolver
         /\ Get(Out, K_tls) = Some(S_true)
    /\ ~(HasConfig /\ PresentNonEmpty(Cfg.certResolver)) /\ ~UserSuppliesTls =>
         /\ K_certresolver \notin DOMAIN Out
         /\ K_tls \notin DOMAIN Out

C9_Witness ==
  /\ Created
  /\ HasConfig
  /\ Cfg.certResolver = Some(S_letsencrypt)
  /\ Get(Out, K_certresolver) = Some(S_letsencrypt)
  /\ Get(Out, K_tls) = Some(S_true)

(* ------------------------------------------------------------------ *)
(* C10                                                                 *)
(* ------------------------------------------------------------------ *)

\* the position of the first character after leading spaces and one sign
FirstDigitPosition(str) ==
  LET spaces == {i \in 0..Len(str) : \A j \in 1..i : str[j] = " "}
      n == CHOOSE i \in spaces : \A j \in spaces : j <= i
  IN IF n < Len(str) /\ str[n + 1] \in {"+", "-"} THEN n + 2 ELSE n + 1

\* the string does not start with a base-10 integer
NoInteger(str) ==
  LET i == FirstDigitPosition(str)
  IN ~(i <= Len(str)
        /\ str[i] \in {"0", "1", "2", "3", "4", "5", "6", "7", "8", "9"})

\* C10: a router.priority annotation that holds no base-10 integer leaves
\* priority unset, and a decoded priority is never a non-integer value.
C10_UnparsablePriorityUnset ==
  pc = "done" =>
    /\ IsSome(annotations) /\ K_priority \in DOMAIN Val(annotations)
         /\ NoInteger(Val(annotations)[K_priority])
         => (IsSome(traefik) => Val(traefik).priority = None)
    /\ IsSome(traefik) /\ IsSome(Val(traefik).priority)
         => ~Val(Val(traefik).priority).nan

(* ------------------------------------------------------------------ *)
(* C11                                                                 *)
(* ------------------------------------------------------------------ *)

\* the decoded configuration carries the field
Decoded(field) == IsSome(traefik) /\ IsSome(Val(traefik)[field])

\* C11: passHostHeader is decoded if and only if the annotation map holds
\* the service.passhostheader key, and the decoded value is the comparison
\* of the annotation value with "true" (so "" decodes to false).
C11_PassHostHeaderIffPresent ==
  pc = "done" /\ IsSome(annotations) =>
    LET v == Get(Val(annotations), K_passhostheader)
    IN /\ Decoded("passHostHeader") <=> IsSome(v)
       /\ Decoded("passHostHeader")
            => Val(Val(traefik).passHostHeader) = (Val(v) = S_true)

(* ------------------------------------------------------------------ *)
(* C12                                                                 *)
(* ------------------------------------------------------------------ *)

\* C12: the decoded sticky field is unset or true, never false, and it is
\* true exactly when the service.sticky.cookie annotation is "true".
C12_StickyUnsetOrTrue ==
  pc = "done" /\ IsSome(annotations) =>
    /\ Decoded("sticky") => Val(Val(traefik).sticky) = TRUE
    /\ Decoded("sticky") <=> Get(Val(annotations), K_sticky) = Some(S_true)

\* an ingress read from the cluster whose sticky annotation is "false" and
\* whose configuration is returned with sticky unset
C12_Witness ==
  /\ Fetched
  /\ IsSome(annotations)
  /\ Get(Val(annotations), K_sticky) = Some(S_false)
  /\ IsSome(traefik)
  /\ Val(traefik).sticky = None

(* ------------------------------------------------------------------ *)
(* C13                                                                 *)
(* ------------------------------------------------------------------ *)

\* a list request has been answered
Listed == pc = "done" /\ op = "list"

\* the six keys the decoder reads, with the field each one feeds
DecodedKeys ==
  {K_entrypoints, K_middlewares, K_certresolver, K_priority, K_sticky,
   K_passhostheader}
FieldOfKey ==
  [k \in DecodedKeys |->
     CASE k = K_entrypoints -> "entryPoints"
       [] k = K_middlewares -> "middlewares"
       [] k = K_certresolver -> "certResolver"
       [] k = K_priority -> "priority"
       [] k = K_sticky -> "sticky"
       [] k = K_passhostheader -> "passHostHeader"]
\* keys found in annotation maps that the decoder does not read
UndecodedKeys == {K_tls, K_sticky_name, K_class}

\* the value of key k in an ingress's annotations, None when there is none
Lookup(annotationsOpt, k) ==
  IF IsSome(annotationsOpt) THEN Get(Val(annotationsOpt), k) ELSE None
KeysOf(annotationsOpt) ==
  IF IsSome(annotationsOpt) THEN DOMAIN Val(annotationsOpt) ELSE {}
AgreeOnDecodedKeys(a, b) ==
  \A k \in DecodedKeys : Lookup(a, k) = Lookup(b, k)

\* C13: two annotation maps that agree on the six decoded keys decode to
\* the same result whatever their other keys hold, a map holding only
\* router.tls, service.sticky.cookie.name or kubernetes.io/ingress.class
\* decodes to absent, and a missing key leaves its field unset.
C13_DecodedKeysOnly ==
  /\ Listed =>
       /\ \A i, j \in DOMAIN items :
            AgreeOnDecodedKeys(items[i], items[j])
              => responses[i] = responses[j]
       /\ \A i \in DOMAIN items :
            KeysOf(items[i]) \subseteq UndecodedKeys => responses[i] = None
  /\ Fetched =>
       \A k \in DecodedKeys :
         Decoded(FieldOfKey[k]) => IsSome(Lookup(annotations, k))

\* two listed ingresses with the same resolver annotation, one with the
\* router.tls flag and one without, answered with the same configuration
C13_Witness ==
  /\ Listed
  /\ Lookup(items[1], K_certresolver) = Some(S_true)
  /\ Lookup(items[2], K_certresolver) = Some(S_true)
  /\ Lookup(items[1], K_tls) = Some(S_true)
  /\ Lookup(items[2], K_tls) = None
  /\ IsSome(responses[1])
  /\ responses[1] = responses[2]

(* ------------------------------------------------------------------ *)
(* The codec called by callers that share their input objects          *)
(* ------------------------------------------------------------------ *)

\* An object is an entry of the heap and a reference is its index, so
\* that a write through one reference is seen through every other one.

\* the object behind an optional reference
Deref(h, refOpt) == IF IsSome(refOpt) THEN Some(h[Val(refOpt)]) ELSE None

\* a bug that writes the fixed key into the caller's own object
AllocateAnnotations_inPlace(h, userRef) ==
  IF IsSome(userRef)
  THEN [heap |-> [h EXCEPT ![Val(userRef)] = Put(@, K_class, S_traefik)],
        ref |-> Val(userRef)]
  ELSE [heap |-> Append(h, Put(EmptyMap, K_class, S_traefik)),
        ref |-> Len(h) + 1]

\* const annotations = { "kubernetes.io/ingress.class": "traefik",
\*                       ...input.annotations }: a new object
AllocateAnnotations(h, userRef) ==
  [heap |-> Append(h, BaseAnnotations(Deref(h, userRef))),
   ref |-> Len(h) + 1]

\* buildTraefikAnnotations on objects: the heap after the call and the
\* reference returned
buildTraefikAnnotationsCall(h, in) ==
  LET new == AllocateAnnotations(h, in.annotations)
      cfg == Deref(new.heap, in.traefik)
  IN IF IsSome(cfg)
     THEN [heap |-> [new.heap EXCEPT ![new.ref] = OverlayTraefik(@, Val(cfg))],
           ref |-> new.ref]
     ELSE new

\* parseTraefikConfig on objects: const config = {} is a new object, the
\* reads fill it in, and it is returned when it has a key
parseTraefikConfigCall(h, ref) ==
  LET config == ParsedConfig(h[ref])
  IN [heap |-> Append(h, config),
      ref |-> IF ObjectKeysLength(config) > 0 THEN Some(Len(h) + 1)
              ELSE None]

\* configurations of the shared input
SharedConfigs ==
  Optional({EmptyConfig,
            [EmptyConfig EXCEPT !.sticky = Some(TRUE)],
            [EmptyConfig EXCEPT !.entryPoints = Some(<<S_websecure>>),
                                !.certResolver = Some(S_letsencrypt)]})
\* annotations of the shared input
SharedAnnotations == Optional(Maps(AllKeys, UserValues, MaxUserKeys))

\* the heap holding the shared configuration and annotations objects
SharedHeap(cfg, user) ==
  (IF IsSome(cfg) THEN <<Val(cfg)>> ELSE <<>>)
    \o (IF IsSome(user) THEN <<Val(user)>> ELSE <<>>)
\* the input object referring to them
SharedInput(cfg, user) ==
  [annotations |-> IF IsSome(user) THEN Some(Len(SharedHeap(cfg, user)))
                   ELSE None,
   traefik |-> IF IsSome(cfg) THEN Some(1) ELSE None]

InitCallers ==
  /\ NoRequest
  /\ NoProcess
  /\ NoConfigCalls
  /\ NoHttp
  /\ \E cfg \in SharedConfigs, user \in SharedAnnotations :
       /\ heap = SharedHeap(cfg, user)
       /\ shared = SharedInput(cfg, user)
  /\ returned = <<>>
  /\ decoded = <<>>

\* references to the annotation maps a caller can hold
AnnotationRefs ==
  {returned[i] : i \in DOMAIN returned}
    \cup (IF IsSome(shared.annotations) THEN {Val(shared.annotations)}
          ELSE {})

\* a caller encodes the shared input
EncodeCall ==
  /\ Len(returned) + Len(decoded) < MaxCalls
  /\ LET call == buildTraefikAnnotationsCall(heap, shared)
     IN /\ heap' = call.heap
        /\ returned' = Append(returned, call.ref)
  /\ UNCHANGED <<shared, decoded>>
  /\ UNCHANGED <<requestVars, processVars, configVars, httpVars>>

\* a caller decodes an annotation map it holds
DecodeCall(ref) ==
  /\ Len(returned) + Len(decoded) < MaxCalls
  /\ LET call == parseTraefikConfigCall(heap, ref)
     IN /\ heap' = call.heap
        /\ decoded' = Append(decoded, [of |-> ref, result |-> call.ref])
  /\ UNCHANGED <<shared, returned>>
  /\ UNCHANGED <<requestVars, processVars, configVars, httpVars>>

NextCallers == EncodeCall \/ \E ref \in AnnotationRefs : DecodeCall(ref)

SpecCallers == InitCallers /\ [][NextCallers]_vars

(* ------------------------------------------------------------------ *)
(* C14                                                                 *)
(* ------------------------------------------------------------------ *)

\* references to the objects of the shared input
InputRefs ==
  (IF IsSome(shared.annotations) THEN {Val(shared.annotations)} ELSE {})
    \cup (IF IsSome(shared.traefik) THEN {Val(shared.traefik)} ELSE {})

\* every map returned by encode is an object of its own, and all of them
\* hold the same pairs; decode results of one map hold the same fields
FreshAndEqualResults ==
  /\ \A i \in DOMAIN returned : returned[i] \notin InputRefs
  /\ \A i, j \in DOMAIN returned :
       /\ i # j => returned[i] # returned[j]
       /\ heap[returned[i]] = heap[returned[j]]
  /\ \A i, j \in DOMAIN decoded :
       decoded[i].of = decoded[j].of
         => Deref(heap, decoded[i].result) = Deref(heap, decoded[j].result)

\* a call leaves the shared input and every object that existed alone
FrameOfCall ==
  /\ shared' = shared
  /\ \A r \in DOMAIN heap : heap'[r] = heap[r]

\* C14: however many encode and decode calls the callers sharing one
\* config and userAnnotations make, and in whatever order, the shared
\* objects stay unchanged, each encode call returns a new object, never
\* the caller's userAnnotations, and all calls return identical results.
C14_PureCodec == [](FreshAndEqualResults) /\ [][FrameOfCall]_vars

\* two encode calls and a decode call on a shared input whose annotations
\* object carries a key of the caller's
C14_Witness ==
  /\ Len(returned) = 2
  /\ Len(decoded) = 1
  /\ IsSome(shared.annotations)
  /\ K_other \in DOMAIN heap[Val(shared.annotations)]
  /\ IsSome(shared.traefik)
  /\ IsSome(decoded[1].result)

(* ------------------------------------------------------------------ *)
(* Kubernetes client start-up (src/src/config/k8s.config.ts)           *)
(* ------------------------------------------------------------------ *)

\* A thrown value is an Error with a message, or some other value (whose
\* text is kept in message).
Error(message) == [isError |-> TRUE, message |-> message]
NotAnError(text) == [isError |-> FALSE, message |-> text]

\* String.prototype.includes(sub)
Includes(str, sub) == \E i \in 1..Len(str) : MatchAt(str, sub, i)

\* the substrings verifyK8sConnectivity looks for in error.message
W_timeout ==
  <<"t", "i", "m", "e", "o", "u", "t">>
W_ECONNREFUSED ==
  <<"E", "C", "O", "N", "N", "R", "E", "F", "U", "S", "E", "D">>
W_ENOTFOUND ==
  <<"E", "N", "O", "T", "F", "O", "U", "N", "D">>
W_Unauthorized ==
  <<"U", "n", "a", "u", "t", "h", "o", "r", "i", "z", "e", "d">>
W_401 ==
  <<"4", "0", "1">>
W_Forbidden ==
  <<"F", "o", "r", "b", "i", "d", "d", "e", "n">>
W_403 ==
  <<"4", "0", "3">>
\* the substring initializeK8sClients looks for in error.message
W_FailedTo ==
  <<"F", "a", "i", "l", "e", "d", " ", "t", "o">>
\* `Kubernetes API connection timeout after ${timeout}ms`
M_TimeoutAfter ==
  <<"K", "u", "b", "e", "r", "n", "e", "t", "e", "s", " ", "A", "P", "I", " ",
    "c", "o", "n", "n", "e", "c", "t", "i", "o", "n", " ", "t", "i", "m", "e",
    "o", "u", "t", " ", "a", "f", "t", "e", "r", " ">>
M_ms ==
  <<"m", "s">>
\* the messages of the errors verifyK8sConnectivity throws
M_FailedToConnect ==
  <<"F", "a", "i", "l", "e", "d", " ", "t", "o", " ", "c", "o", "n", "n", "e",
    "c", "t", " ", "t", "o", " ", "K", "u", "b", "e", "r", "n", "e", "t", "e",
    "s", " ", "c", "l", "u", "s", "t", "e", "r", ":", " ">>
M_ConnectionTimeout ==
  <<"C", "o", "n", "n", "e", "c", "t", "i", "o", "n", " ", "t", "i", "m", "e",
    "o", "u", "t", ".", " ", "T", "h", "e", " ", "k", "3", "s", " ", "c", "l",
    "u", "s", "t", "e", "r", " ", "m", "a", "y", " ", "b", "e", " ", "u", "n",
    "r", "e", "a", "c", "h", "a", "b", "l", "e", " ", "o", "r", " ", "n", "o",
    "t", " ", "r", "e", "s", "p", "o", "n", "d", "i", "n", "g", ".", " ", "P",
    "l", "e", "a", "s", "e", " ", "v", "e", "r", "i", "f", "y", " ", "t", "h",
    "e", " ", "c", "l", "u", "s", "t", "e", "r", " ", "i", "s", " ", "r", "u",
    "n", "n", "i", "n", "g", " ", "a", "n", "d", " ", "a", "c", "c", "e", "s",
    "s", "i", "b", "l", "e", ".">>
M_ConnectionRefused ==
  <<"C", "o", "n", "n", "e", "c", "t", "i", "o", "n", " ", "r", "e", "f", "u",
    "s", "e", "d", ".", " ", "T", "h", "e", " ", "k", "3", "s", " ", "c", "l",
    "u", "s", "t", "e", "r", " ", "i", "s", " ", "n", "o", "t", " ", "r", "e",
    "a", "c", "h", "a", "b", "l", "e", " ", "a", "t", " ", "t", "h", "e", " ",
    "c", "o", "n", "f", "i", "g", "u", "r", "e", "d", " ", "a", "d", "d", "r",
    "e", "s", "s", ".", " ", "P", "l", "e", "a", "s", "e", " ", "v", "e", "r",
    "i", "f", "y", " ", "t", "h", "e", " ", "c", "l", "u", "s", "t", "e", "r",
    " ", "i", "s", " ", "r", "u", "n", "n", "i", "n", "g", " ", "a", "n", "d",
    " ", "t", "h", "e", " ", "k", "u", "b", "e", "c", "o", "n", "f", "i", "g",
    " ", "i", "s", " ", "c", "o", "r", "r", "e", "c", "t", ".">>
M_HostNotFound ==
  <<"H", "o", "s", "t", " ", "n", "o", "t", " ", "f", "o", "u", "n", "d", ".",
    " ", "T", "h", "e", " ", "c", "l", "u", "s", "t", "e", "r", " ", "h", "o",
    "s", "t", "n", "a", "m", "e", " ", "i", "n", " ", "t", "h", "e", " ", "k",
    "u", "b", "e", "c", "o", "n", "f", "i", "g", " ", "c", "o", "u", "l", "d",
    " ", "n", "o", "t", " ", "b", "e", " ", "r", "e", "s", "o", "l", "v", "e",
    "d", ".", " ", "P", "l", "e", "a", "s", "e", " ", "v", "e", "r", "i", "f",
    "y", " ", "t", "h", "e", " ", "k", "u", "b", "e", "c", "o", "n", "f", "i",
    "g", " ", "s", "e", "r", "v", "e", "r", " ", "a", "d", "d", "r", "e", "s",
    "s", " ", "i", "s", " ", "c", "o", "r", "r", "e", "c", "t", ".">>
M_AuthenticationFailed ==
  <<"A", "u", "t", "h", "e", "n", "t", "i", "c", "a", "t", "i", "o", "n", " ",
    "f", "a", "i", "l", "e", "d", ".", " ", "T", "h", "e", " ", "c", "r", "e",
    "d", "e", "n", "t", "i", "a", "l", "s", " ", "i", "n", " ", "t", "h", "e",
    " ", "k", "u", "b", "e", "c", "o", "n", "f", "i", "g", " ", "a", "r", "e",
    " ", "i", "n", "v", "a", "l", "i", "d", " ", "o", "r", " ", "e", "x", "p",
    "i", "r", "e", "d", ".", " ", "P", "l", "e", "a", "s", "e", " ", "v", "e",
    "r", "i", "f", "y", " ", "t", "h", "e", " ", "k", "u", "b", "e", "c", "o",
    "n", "f", "i", "g", " ", "a", "u", "t", "h", "e", "n", "t", "i", "c", "a",
    "t", "i", "o", "n", " ", "s", "e", "t", "t", "i", "n", "g", "s", ".">>
M_AuthorizationFailed ==
  <<"A", "u", "t", "h", "o", "r", "i", "z", "a", "t", "i", "o", "n", " ", "f",
    "a", "i", "l", "e", "d", ".", " ", "T", "h", "e", " ", "a", "u", "t", "h",
    "e", "n", "t", "i", "c", "a", "t", "e", "d", " ", "u", "s", "e", "r", " ",
    "d", "o", "e", "s", " ", "n", "o", "t", " ", "h", "a", "v", "e", " ", "p",
    "e", "r", "m", "i", "s", "s", "i", "o", "n", " ", "t", "o", " ", "l", "i",
    "s", "t", " ", "n", "a", "m", "e", "s", "p", "a", "c", "e", "s", ".", " ",
    "P", "l", "e", "a", "s", "e", " ", "v", "e", "r", "i", "f", "y", " ", "t",
    "h", "e", " ", "u", "s", "e", "r", " ", "h", "a", "s", " ", "a", "p", "p",
    "r", "o", "p", "r", "i", "a", "t", "e", " ", "R", "B", "A", "C", " ", "p",
    "e", "r", "m", "i", "s", "s", "i", "o", "n", "s", ".">>
M_PleaseVerify ==
  <<".", " ", "P", "l", "e", "a", "s", "e", " ", "v", "e", "r", "i", "f", "y",
    " ", "t", "h", "e", " ", "k", "u", "b", "e", "c", "o", "n", "f", "i", "g",
    " ", "i", "s", " ", "v", "a", "l", "i", "d", " ", "a", "n", "d", " ", "t",
    "h", "e", " ", "c", "l", "u", "s", "t", "e", "r", " ", "i", "s", " ", "a",
    "c", "c", "e", "s", "s", "i", "b", "l", "e", ".">>
M_UnknownError ==
  <<"U", "n", "k", "n", "o", "w", "n", " ", "e", "r", "r", "o", "r">>
\* the messages of the errors initializeK8sClients throws
M_FailedToLoad ==
  <<"F", "a", "i", "l", "e", "d", " ", "t", "o", " ", "l", "o", "a", "d", " ",
    "k", "u", "b", "e", "c", "o", "n", "f", "i", "g", ":", " ">>
M_PleaseEnsure ==
  <<".", " ", "P", "l", "e", "a", "s", "e", " ", "e", "n", "s", "u", "r", "e",
    " ", "a", " ", "v", "a", "l", "i", "d", " ", "k", "u", "b", "e", "c", "o",
    "n", "f", "i", "g", " ", "e", "x", "i", "s", "t", "s", " ", "a", "t", " ",
    "~", "/", ".", "k", "u", "b", "e", "/", "c", "o", "n", "f", "i", "g", " ",
    "o", "r", " ", "s", "e", "t", " ", "t", "h", "e", " ", "K", "U", "B", "E",
    "C", "O", "N", "F", "I", "G", " ", "e", "n", "v", "i", "r", "o", "n", "m",
    "e", "n", "t", " ", "v", "a", "r", "i", "a", "b", "l", "e", ".">>
M_FailedToInitialize ==
  <<"F", "a", "i", "l", "e", "d", " ", "t", "o", " ", "i", "n", "i", "t", "i",
    "a", "l", "i", "z", "e", " ", "K", "u", "b", "e", "r", "n", "e", "t", "e",
    "s", " ", "c", "l", "i", "e", "n", "t", "s", ":", " ">>
\* the message validateConfig throws for K8S_TIMEOUT=abc
M_ConfigurationInvalid ==
  <<"C", "o", "n", "f", "i", "g", "u", "r", "a", "t", "i", "o", "n", " ", "v",
    "a", "l", "i", "d", "a", "t", "i", "o", "n", " ", "f", "a", "i", "l", "e",
    "d", ":", "\n", " ", " ", "-", " ", "K", "8", "S", "_", "T", "I", "M",
    "E", "O", "U", "T", ":", " ", "K", "8", "S", "_", "T", "I", "M", "E", "O",
    "U", "T", " ", "m", "u", "s", "t", " ", "b", "e", " ", "a", " ", "v", "a",
    "l", "i", "d", " ", "n", "u", "m", "b", "e", "r", "\n", "\n", "P", "l",
    "e", "a", "s", "e", " ", "c", "h", "e", "c", "k", " ", "y", "o", "u", "r",
    " ", "e", "n", "v", "i", "r", "o", "n", "m", "e", "n", "t", " ", "v", "a",
    "r", "i", "a", "b", "l", "e", "s", " ", "a", "n", "d", " ", "e", "n", "s",
    "u", "r", "e", " ", "a", "l", "l", " ", "r", "e", "q", "u", "i", "r", "e",
    "d", " ", "v", "a", "l", "u", "e", "s", " ", "a", "r", "e", " ", "s", "e",
    "t", " ", "c", "o", "r", "r", "e", "c", "t", "l", "y", ".">>
\* messages of the errors the Kubernetes client rejects with
E_refused ==
  <<"c", "o", "n", "n", "e", "c", "t", " ", "E", "C", "O", "N", "N", "R", "E",
    "F", "U", "S", "E", "D", " ", "1", "2", "7", ".", "0", ".", "0", ".", "1",
    ":", "6", "4", "4", "3">>
E_notfound ==
  <<"g", "e", "t", "a", "d", "d", "r", "i", "n", "f", "o", " ", "E", "N", "O",
    "T", "F", "O", "U", "N", "D", " ", "i", "n", "v", "a", "l", "i", "d", "-",
    "h", "o", "s", "t">>
E_unauthorized ==
  <<"U", "n", "a", "u", "t", "h", "o", "r", "i", "z", "e", "d">>
E_http401 ==
  <<"H", "T", "T", "P", " ", "4", "0", "1">>
E_forbidden ==
  <<"F", "o", "r", "b", "i", "d", "d", "e", "n">>
E_http403 ==
  <<"H", "T", "T", "P", " ", "4", "0", "3">>
E_reqtimeout ==
  <<"R", "e", "q", "u", "e", "s", "t", " ", "t", "i", "m", "e", "o", "u",
    "t">>
E_unexpected ==
  <<"S", "o", "m", "e", " ", "u", "n", "e", "x", "p", "e", "c", "t", "e", "d",
    " ", "e", "r", "r", "o", "r">>
E_refused403 ==
  <<"4", "0", "3", " ", "a", "f", "t", "e", "r", " ", "E", "C", "O", "N", "N",
    "R", "E", "F", "U", "S", "E", "D">>
E_failedto ==
  <<"F", "a", "i", "l", "e", "d", " ", "t", "o", " ", "f", "e", "t", "c",
    "h">>
\* a value that is not an Error
E_string ==
  <<"s", "t", "r", "i", "n", "g", " ", "e", "r", "r", "o", "r">>
\* messages of the errors loadFromDefault throws
E_unable ==
  <<"U", "n", "a", "b", "l", "e", " ", "t", "o", " ", "l", "o", "a", "d", " ",
    "k", "u", "b", "e", "c", "o", "n", "f", "i", "g">>
E_enoent ==
  <<"E", "N", "O", "E", "N", "T", ":", " ", "n", "o", " ", "s", "u", "c", "h",
    " ", "f", "i", "l", "e", " ", "o", "r", " ", "d", "i", "r", "e", "c", "t",
    "o", "r", "y">>

\* a bug that looks for the words only, not for the status codes
ConnectivityDetail_wordsOnly(message) ==
  IF Includes(message, W_timeout) THEN M_ConnectionTimeout
  ELSE IF Includes(message, W_ECONNREFUSED) THEN M_ConnectionRefused
  ELSE IF Includes(message, W_ENOTFOUND) THEN M_HostNotFound
  ELSE IF Includes(message, W_Unauthorized) THEN M_AuthenticationFailed
  ELSE IF Includes(message, W_Forbidden) THEN M_AuthorizationFailed
  ELSE message \o M_PleaseVerify

\* the if / else if chain on error.message of verifyK8sConnectivity's
\* catch: what follows "Failed to connect to Kubernetes cluster: "
ConnectivityDetail(message) ==
  IF Includes(message, W_timeout) THEN M_ConnectionTimeout
  ELSE IF Includes(message, W_ECONNREFUSED) THEN M_ConnectionRefused
  ELSE IF Includes(message, W_ENOTFOUND) THEN M_HostNotFound
  ELSE IF Includes(message, W_Unauthorized) \/ Includes(message, W_401)
  THEN M_AuthenticationFailed
  ELSE IF Includes(message, W_Forbidden) \/ Includes(message, W_403)
  THEN M_AuthorizationFailed
  ELSE message \o M_PleaseVerify

\* the catch block of verifyK8sConnectivity: the error it throws
verifyCatch(error) ==
  IF error.isError
  THEN Error(M_FailedToConnect \o ConnectivityDetail(error.message))
  ELSE Error(M_FailedToConnect \o M_UnknownError \o M_PleaseVerify)

\* the error the timer rejects timeoutPromise with
TimeoutError(timeout) ==
  Error(M_TimeoutAfter \o StringOfNumber(timeout) \o M_ms)

\* a bug that falls back to the configuration for every falsy argument
TimeoutOf_or(argument, config) ==
  IF IsSome(argument) /\ Val(argument) # 0 THEN Val(argument)
  ELSE config.k8sTimeout

\* timeoutMs ?? config.k8sTimeout
TimeoutOf(argument, config) ==
  IF IsSome(argument) THEN Val(argument) ELSE config.k8sTimeout

\* a bug that lets the error of kc.loadFromDefault() through as it is
loadFromDefaultCatch_rethrow(error) == error

\* the inner catch of initializeK8sClients, around kc.loadFromDefault()
loadFromDefaultCatch(error) ==
  Error(M_FailedToLoad
          \o (IF error.isError THEN error.message ELSE M_UnknownError)
          \o M_PleaseEnsure)

\* a bug that adds the context to every error
initializeCatch_always(error) ==
  Error(M_FailedToInitialize
          \o (IF error.isError THEN error.message ELSE M_UnknownError))

\* the outer catch of initializeK8sClients
initializeCatch(error) ==
  IF error.isError /\ Includes(error.message, W_FailedTo) THEN error
  ELSE Error(M_FailedToInitialize
               \o (IF error.isError THEN error.message ELSE M_UnknownError))

\* a bug that answers false for connection errors only
HealthResult_rethrow(verified, error) ==
  IF verified THEN "true"
  ELSE IF Includes(Val(error).message, M_FailedToConnect) THEN "false"
  ELSE "rejected"

\* checkK8sHealth: return true after the await, return false in the catch
HealthResult(verified, error) == IF verified THEN "true" ELSE "false"

\* a bug that starts the server without looking at the outcome
AfterInitialize_listen(initialized) == "listening"

\* startServer: app.listen after the await, process.exit(1) in the catch
AfterInitialize(initialized) ==
  IF initialized THEN "listening" ELSE "exited"

\* the functions a run enters
Entries ==
  {"startServer", "initializeK8sClients", "verifyK8sConnectivity",
   "checkK8sHealth"}

\* values of K8S_TIMEOUT that configSchema accepts (5000 is the default)
K8sTimeouts == {0, 5000}
\* the part of AppConfig the start-up reads
Configs == [k8sTimeout : K8sTimeouts]
\* values of the timeoutMs argument
TimeoutArguments == {0, 100}

\* errors the listNamespace call rejects with
ApiErrors ==
  {Error(E_refused), Error(E_notfound), Error(E_unauthorized),
   Error(E_http401), Error(E_forbidden), Error(E_http403),
   Error(E_reqtimeout), Error(E_unexpected), Error(E_refused403),
   Error(E_failedto), NotAnError(E_string)}
\* errors kc.loadFromDefault() throws
KubeconfigErrors == {Error(E_unable), Error(E_enoent), NotAnError(E_string)}

\* the configuration is read from the environment when the modules are
\* imported, so startServer finds no cached configuration only at import;
\* the other functions are entered with or without one (resetConfig)
InitProcess ==
  /\ NoRequest
  /\ NoCallers
  /\ NoConfigCalls
  /\ NoHttp
  /\ entry \in Entries
  /\ parsedEnv \in Optional(Configs)
  /\ configInstance \in Optional(Configs)
  /\ entry = "startServer" => configInstance = None
  /\ timeoutMs \in Optional(TimeoutArguments)
  /\ entry \in {"startServer", "initializeK8sClients"} => timeoutMs = None
  /\ server = IF entry = "startServer" THEN "import" ELSE "idle"
  /\ init = [NotInitializing EXCEPT
               !.pc = IF entry = "initializeK8sClients" THEN "called"
                      ELSE "idle"]
  /\ verify = [NotVerifying EXCEPT
                 !.pc = IF entry \in {"verifyK8sConnectivity",
                                       "checkK8sHealth"}
                        THEN "called" ELSE "idle"]
  /\ health = IF entry = "checkK8sHealth" THEN "waiting" ELSE "idle"
  /\ api = "none"
  /\ timer = "none"
  /\ exitCode = None
  /\ log = <<>>

\* the process has not exited
Running == exitCode = None

\* export const config = getConfig() runs when index.ts imports the
\* configuration module; an error thrown there is not caught by anyone
\* and ends the process with exit code 1
ImportModules ==
  /\ server = "import"
  /\ IF IsSome(parsedEnv)
     THEN /\ configInstance' = parsedEnv
          /\ server' = "startServer"
          /\ UNCHANGED exitCode
     ELSE /\ server' = "exited"
          /\ exitCode' = Some(1)
          /\ UNCHANGED configInstance
  /\ UNCHANGED <<entry, parsedEnv, timeoutMs, init, verify, health, api,
                 timer, log>>
  /\ UNCHANGED <<requestVars, callerVars, configVars, httpVars>>

\* startServer, step 1: loadConfig(), then the call of
\* initializeK8sClients; a validation error goes to the catch block
LoadConfig ==
  /\ server = "startServer"
  /\ IF IsSome(parsedEnv)
     THEN /\ server' = "initializing"
          /\ log' = Append(log, "configuration loaded")
          /\ init' = [init EXCEPT !.pc = "called"]
          /\ UNCHANGED exitCode
     ELSE /\ server' = "exited"
          /\ exitCode' = Some(1)
          /\ UNCHANGED <<log, init>>
  /\ UNCHANGED <<entry, parsedEnv, configInstance, timeoutMs, verify,
                 health, api, timer>>
  /\ UNCHANGED <<requestVars, callerVars, configVars, httpVars>>

\* initializeK8sClients: kc.loadFromDefault() returns
KubeconfigLoads ==
  /\ Running
  /\ init.pc = "called"
  /\ init' = [init EXCEPT !.pc = "loaded"]
  /\ UNCHANGED <<entry, parsedEnv, configInstance, timeoutMs, server,
                 verify, health, api, timer, exitCode, log>>
  /\ UNCHANGED <<requestVars, callerVars, configVars, httpVars>>

\* initializeK8sClients: kc.loadFromDefault() throws; the inner catch
\* throws the descriptive error and the outer catch decides what leaves
KubeconfigFails(error) ==
  /\ Running
  /\ init.pc = "called"
  /\ init' = [init EXCEPT
                !.pc = "rejected",
                !.caught = Some(error),
                !.error = Some(initializeCatch(loadFromDefaultCatch(error)))]
  /\ UNCHANGED <<entry, parsedEnv, configInstance, timeoutMs, server,
                 verify, health, api, timer, exitCode, log>>
  /\ UNCHANGED <<requestVars, callerVars, configVars, httpVars>>

\* initializeK8sClients: the three makeApiClient calls, then the call of
\* verifyK8sConnectivity(coreV1Api)
MakeApiClients ==
  /\ Running
  /\ init.pc = "loaded"
  /\ init' = [init EXCEPT !.pc = "verifying", !.clients = 3]
  /\ verify' = [verify EXCEPT !.pc = "called"]
  /\ UNCHANGED <<entry, parsedEnv, configInstance, timeoutMs, server,
                 health, api, timer, exitCode, log>>
  /\ UNCHANGED <<requestVars, callerVars, configVars, httpVars>>

\* verifyK8sConnectivity up to the await: getConfig() (outside the try: an
\* error of loadConfig rejects the call as it is), the timeout, the timer
\* and the listNamespace call
VerifyStart ==
  /\ Running
  /\ verify.pc = "called"
  /\ LET loaded == IF IsSome(configInstance) THEN configInstance
                   ELSE parsedEnv
     IN IF IsSome(loaded)
        THEN /\ configInstance' = loaded
             /\ verify' = [verify EXCEPT
                             !.pc = "racing",
                             !.timeout = Some(TimeoutOf(timeoutMs,
                                                        Val(loaded)))]
             /\ timer' = "armed"
             /\ api' = "pending"
        ELSE /\ verify' = [verify EXCEPT
                             !.pc = "rejected",
                             !.error = Some(Error(M_ConfigurationInvalid))]
             /\ UNCHANGED <<configInstance, timer, api>>
  /\ UNCHANGED <<entry, parsedEnv, timeoutMs, server, init, health,
                 exitCode, log>>
  /\ UNCHANGED <<requestVars, callerVars, configVars, httpVars>>

\* the listNamespace promise is fulfilled; it settles the race if the
\* race is still open
ApiResolves ==
  /\ Running
  /\ api = "pending"
  /\ api' = "fulfilled"
  /\ verify' = IF verify.pc = "racing" THEN [verify EXCEPT !.pc = "resolved"]
               ELSE verify
  /\ UNCHANGED <<entry, parsedEnv, configInstance, timeoutMs, server, init,
                 health, timer, exitCode, log>>
  /\ UNCHANGED <<requestVars, callerVars, configVars, httpVars>>

\* the listNamespace promise is rejected; if the race is still open the
\* catch block turns the error into the one thrown
ApiRejects(error) ==
  /\ Running
  /\ api = "pending"
  /\ api' = "rejected"
  /\ verify' = IF verify.pc = "racing"
               THEN [verify EXCEPT !.pc = "rejected",
                                   !.caught = Some(error),
                                   !.error = Some(verifyCatch(error))]
               ELSE verify
  /\ UNCHANGED <<entry, parsedEnv, configInstance, timeoutMs, server, init,
                 health, timer, exitCode, log>>
  /\ UNCHANGED <<requestVars, callerVars, configVars, httpVars>>

\* a bug that lets the timer reject the call whenever it runs out
TimerFires_always ==
  /\ Running
  /\ timer = "armed"
  /\ timer' = "fired"
  /\ verify' = LET error == TimeoutError(Val(verify.timeout))
               IN [verify EXCEPT !.pc = "rejected",
                                 !.caught = Some(error),
                                 !.error = Some(verifyCatch(error))]
  /\ UNCHANGED <<entry, parsedEnv, configInstance, timeoutMs, server, init,
                 health, api, exitCode, log>>
  /\ UNCHANGED <<requestVars, callerVars, configVars, httpVars>>

\* the timer runs out and rejects timeoutPromise (nothing clears it)
TimerFires ==
  /\ Running
  /\ timer = "armed"
  /\ timer' = "fired"
  /\ verify' = IF verify.pc = "racing"
               THEN LET error == TimeoutError(Val(verify.timeout))
                    IN [verify EXCEPT !.pc = "rejected",
                                      !.caught = Some(error),
                                      !.error = Some(verifyCatch(error))]
               ELSE verify
  /\ UNCHANGED <<entry, parsedEnv, configInstance, timeoutMs, server, init,
                 health, api, exitCode, log>>
  /\ UNCHANGED <<requestVars, callerVars, configVars, httpVars>>

\* initializeK8sClients after await verifyK8sConnectivity(coreV1Api): the
\* clients are returned, or the outer catch decides what leaves
InitializeSettles ==
  /\ Running
  /\ init.pc = "verifying"
  /\ verify.pc \in {"resolved", "rejected"}
  /\ init' = IF verify.pc = "resolved" THEN [init EXCEPT !.pc = "resolved"]
             ELSE [init EXCEPT
                     !.pc = "rejected",
                     !.error = Some(initializeCatch(Val(verify.error)))]
  /\ UNCHANGED <<entry, parsedEnv, configInstance, timeoutMs, server,
                 verify, health, api, timer, exitCode, log>>
  /\ UNCHANGED <<requestVars, callerVars, configVars, httpVars>>

\* startServer after await initializeK8sClients(): app.listen(PORT), or
\* the catch block and process.exit(1)
StartSettles ==
  /\ server = "initializing"
  /\ init.pc \in {"resolved", "rejected"}
  /\ server' = AfterInitialize(init.pc = "resolved")
  /\ IF server' = "listening"
     THEN /\ log' = log \o <<"connectivity verified", "listening">>
          /\ UNCHANGED exitCode
     ELSE /\ exitCode' = Some(1)
          /\ UNCHANGED log
  /\ UNCHANGED <<entry, parsedEnv, configInstance, timeoutMs, init, verify,
                 health, api, timer>>
  /\ UNCHANGED <<requestVars, callerVars, configVars, httpVars>>

\* checkK8sHealth after await verifyK8sConnectivity(client, timeoutMs)
HealthSettles ==
  /\ health = "waiting"
  /\ verify.pc \in {"resolved", "rejected"}
  /\ health' = HealthResult(verify.pc = "resolved", verify.error)
  /\ UNCHANGED <<entry, parsedEnv, configInstance, timeoutMs, server, init,
                 verify, api, timer, exitCode, log>>
  /\ UNCHANGED <<requestVars, callerVars, configVars, httpVars>>

\* the steps the program takes by itself
ProgramStep ==
  \/ ImportModules
  \/ LoadConfig
  \/ KubeconfigLoads
  \/ \E error \in KubeconfigErrors : KubeconfigFails(error)
  \/ MakeApiClients
  \/ VerifyStart
  \/ InitializeSettles
  \/ StartSettles
  \/ HealthSettles

NextProcess ==
  \/ ProgramStep
  \/ ApiResolves
  \/ \E error \in ApiErrors : ApiRejects(error)
  \/ TimerFires

SpecProcess == InitProcess /\ [][NextProcess]_vars

\* The event loop runs every continuation that is ready and every timer
\* that has run out; nothing makes the cluster answer.
FairProcess == SpecProcess /\ WF_vars(ProgramStep) /\ WF_vars(TimerFires)

(* ------------------------------------------------------------------ *)
(* Vocabulary of the start-up properties                               *)
(* ------------------------------------------------------------------ *)

StartsWith(str, prefix) ==
  Len(prefix) <= Len(str) /\ SubSeq(str, 1, Len(prefix)) = prefix

\* the details and advice the claims name
L_ConnectionTimeout ==
  <<"C", "o", "n", "n", "e", "c", "t", "i", "o", "n", " ", "t", "i", "m", "e",
    "o", "u", "t">>
L_ConnectionRefused ==
  <<"C", "o", "n", "n", "e", "c", "t", "i", "o", "n", " ", "r", "e", "f", "u",
    "s", "e", "d">>
L_HostNotFound ==
  <<"H", "o", "s", "t", " ", "n", "o", "t", " ", "f", "o", "u", "n", "d">>
L_AuthenticationFailed ==
  <<"A", "u", "t", "h", "e", "n", "t", "i", "c", "a", "t", "i", "o", "n", " ",
    "f", "a", "i", "l", "e", "d">>
L_AuthorizationFailed ==
  <<"A", "u", "t", "h", "o", "r", "i", "z", "a", "t", "i", "o", "n", " ", "f",
    "a", "i", "l", "e", "d">>
L_UnknownError ==
  <<"U", "n", "k", "n", "o", "w", "n", " ", "e", "r", "r", "o", "r">>
L_FailedToConnect ==
  <<"F", "a", "i", "l", "e", "d", " ", "t", "o", " ", "c", "o", "n", "n", "e",
    "c", "t", " ", "t", "o", " ", "K", "u", "b", "e", "r", "n", "e", "t", "e",
    "s", " ", "c", "l", "u", "s", "t", "e", "r">>
L_FailedToLoad ==
  <<"F", "a", "i", "l", "e", "d", " ", "t", "o", " ", "l", "o", "a", "d", " ",
    "k", "u", "b", "e", "c", "o", "n", "f", "i", "g", ":", " ">>
L_EnsureKubeconfig ==
  <<"e", "n", "s", "u", "r", "e", " ", "a", " ", "v", "a", "l", "i", "d", " ",
    "k", "u", "b", "e", "c", "o", "n", "f", "i", "g", " ", "e", "x", "i", "s",
    "t", "s">>
L_FailedToInitialize ==
  <<"F", "a", "i", "l", "e", "d", " ", "t", "o", " ", "i", "n", "i", "t", "i",
    "a", "l", "i", "z", "e", " ", "K", "u", "b", "e", "r", "n", "e", "t", "e",
    "s", " ", "c", "l", "i", "e", "n", "t", "s", ":", " ">>
L_FailedTo ==
  <<"F", "a", "i", "l", "e", "d", " ", "t", "o">>

\* verifyK8sConnectivity / initializeK8sClients has settled
VerifySettled == verify.pc \in {"resolved", "rejected"}
InitializeSettled == init.pc \in {"resolved", "rejected"}
\* the message of the error a rejected call carries
VerifyMessage == Val(verify.error).message
InitializeMessage == Val(init.error).message

(* ------------------------------------------------------------------ *)
(* C15                                                                 *)
(* ------------------------------------------------------------------ *)

\* a step of the start-up has failed
StartupFailed ==
  /\ entry = "startServer"
  /\ parsedEnv = None \/ init.pc = "rejected"

StartupOrder ==
  /\ server = "listening" =>
       /\ IsSome(parsedEnv) /\ configInstance = parsedEnv
       /\ init.pc = "resolved" /\ verify.pc = "resolved"
       /\ api = "fulfilled"
       /\ log = <<"configuration loaded", "connectivity verified",
                  "listening">>
  /\ StartupFailed => server # "listening"
  /\ server = "exited" <=> exitCode = Some(1)

\* C15: the server listens only after the configuration has been loaded
\* and then the Kubernetes connectivity verified; if either step fails the
\* process exits with status code 1 and the server never listens.
C15_ListenAfterVerification ==
  /\ [](StartupOrder)
  /\ StartupFailed ~> (exitCode = Some(1))
  /\ [][server = "exited" => server' = "exited"]_vars

\* the server listening after both steps
C15_Witness ==
  /\ server = "listening"
  /\ Len(log) = 3
  /\ timer = "armed"

(* ------------------------------------------------------------------ *)
(* C16                                                                 *)
(* ------------------------------------------------------------------ *)

\* initializeK8sClients was called (directly or by startServer)
Initializing == init.pc # "idle"

\* the connectivity check comes after the clients and before the return,
\* and the clients are returned only after it succeeded
CheckedBeforeReturn ==
  /\ Initializing /\ api # "none" => init.clients = 3
  /\ init.pc = "resolved" => verify.pc = "resolved" /\ api = "fulfilled"
  /\ InitializeSettled /\ verify.pc = "rejected" => init.pc = "rejected"

\* C16 as claimed: initializeK8sClients checks connectivity after creating
\* the clients and before returning, resolves only if the verification
\* succeeded, and when the verification fails rejects with the
\* verification error's message unchanged and returns no clients.
C16_VerificationErrorUnchangedAsClaimed ==
  /\ CheckedBeforeReturn
  /\ InitializeSettled /\ verify.pc = "rejected"
       => InitializeMessage = VerifyMessage

\* C16 as amended: ... when the verification fails it returns no clients
\* and rejects with the verification error's message, unchanged when the
\* message contains "Failed to" (every failure or timeout of the
\* connectivity call) and otherwise (a configuration error raised before
\* the call) after "Failed to initialize Kubernetes clients: ".
C16_VerificationError ==
  /\ CheckedBeforeReturn
  /\ InitializeSettled /\ verify.pc = "rejected" =>
       /\ IsSome(verify.caught) => Includes(VerifyMessage, L_FailedTo)
       /\ InitializeMessage
            = IF Includes(VerifyMessage, L_FailedTo) THEN VerifyMessage
              ELSE L_FailedToInitialize \o VerifyMessage

\* initializeK8sClients rejected after the refused connection of its
\* connectivity check, with three clients created and none returned
C16_Witness ==
  /\ init.pc = "rejected"
  /\ init.clients = 3
  /\ verify.caught = Some(Error(E_refused))
  /\ StartsWith(InitializeMessage, L_FailedToConnect)
  /\ Includes(InitializeMessage, L_ConnectionRefused)

(* ------------------------------------------------------------------ *)
(* C17                                                                 *)
(* ------------------------------------------------------------------ *)

\* the call completed before the timer ran out / the timer ran out first
CompletedInTime == api = "fulfilled" /\ timer = "armed"
TimedOut == timer = "fired" /\ api = "pending"

RaceOutcome ==
  /\ CompletedInTime => verify.pc = "resolved"
  /\ TimedOut =>
       /\ verify.pc = "rejected"
       /\ StartsWith(VerifyMessage, L_FailedToConnect)
       /\ Includes(VerifyMessage, L_ConnectionTimeout)
  /\ timer # "none" =>
       verify.timeout
         = Some(IF IsSome(timeoutMs) THEN Val(timeoutMs)
                ELSE Val(configInstance).k8sTimeout)

\* C17: verifyK8sConnectivity resolves when listNamespace completes
\* successfully before the timeout elapses, rejects with a Connection
\* timeout error when the timeout (timeoutMs, or config.k8sTimeout when
\* the argument is not given) elapses first, and always settles, even if
\* the API call never completes.
C17_SettlesWithinTimeout ==
  /\ [](RaceOutcome)
  /\ (verify.pc = "called") ~> VerifySettled

\* a call with timeoutMs = 0 whose timer ran out while listNamespace was
\* still pending
C17_Witness ==
  /\ entry = "verifyK8sConnectivity"
  /\ timeoutMs = Some(0)
  /\ verify.timeout = Some(0)
  /\ TimedOut
  /\ verify.pc = "rejected"

(* ------------------------------------------------------------------ *)
(* C18                                                                 *)
(* ------------------------------------------------------------------ *)

\* the rules of the claim, in order: the substrings looked for in the
\* cause's message and the detail chosen
DetailRules ==
  <<[words |-> {W_timeout}, detail |-> L_ConnectionTimeout],
    [words |-> {W_ECONNREFUSED}, detail |-> L_ConnectionRefused],
    [words |-> {W_ENOTFOUND}, detail |-> L_HostNotFound],
    [words |-> {W_Unauthorized, W_401}, detail |-> L_AuthenticationFailed],
    [words |-> {W_Forbidden, W_403}, detail |-> L_AuthorizationFailed]>>

RuleMatches(i, message) ==
  \E word \in DetailRules[i].words : Includes(message, word)
MatchingRules(message) ==
  {i \in DOMAIN DetailRules : RuleMatches(i, message)}
FirstMatchingRule(message) ==
  CHOOSE i \in MatchingRules(message) :
    \A j \in MatchingRules(message) : i <= j

\* what follows "Failed to connect to Kubernetes cluster: " in a message
DetailOf(message) ==
  SubSeq(message, Len(L_FailedToConnect) + 3, Len(message))

\* the cause caught by verifyK8sConnectivity
Cause == Val(verify.caught)

\* C18: when the connectivity call fails, verifyK8sConnectivity rejects
\* with an error starting "Failed to connect to Kubernetes cluster" whose
\* detail is that of the first rule matching the cause's message, a
\* generic message including the cause's message when no rule matches,
\* and Unknown error when the cause is not an Error; the cause itself is
\* never what the call rejects with.
C18_FirstMatchingRule ==
  IsSome(verify.caught) =>
    /\ verify.pc = "rejected"
    /\ Val(verify.error).isError
    /\ Val(verify.error) # Cause
    /\ StartsWith(VerifyMessage, L_FailedToConnect \o <<":", " ">>)
    /\ IF ~Cause.isError
       THEN StartsWith(DetailOf(VerifyMessage), L_UnknownError)
       ELSE IF MatchingRules(Cause.message) # {}
       THEN StartsWith(DetailOf(VerifyMessage),
                       DetailRules[FirstMatchingRule(Cause.message)].detail)
       ELSE StartsWith(DetailOf(VerifyMessage), Cause.message \o <<".">>)

\* a cause matching two rules, reported by the first of them
C18_Witness ==
  /\ verify.caught = Some(Error(E_refused403))
  /\ MatchingRules(Cause.message) = {2, 5}
  /\ StartsWith(DetailOf(VerifyMessage), L_ConnectionRefused)

(* ------------------------------------------------------------------ *)
(* C19                                                                 *)
(* ------------------------------------------------------------------ *)

\* C19: checkK8sHealth never rejects; it resolves to true exactly when
\* verifyK8sConnectivity succeeds and to false on every failure, a
\* configuration error raised while reading the timeout included.
C19_HealthNeverThrows ==
  /\ health \in {"idle", "waiting", "true", "false"}
  /\ health = "true" => verify.pc = "resolved"
  /\ health = "false" => verify.pc = "rejected"

\* a health check answered false after the configuration error
C19_Witness ==
  /\ health = "false"
  /\ verify.caught = None
  /\ StartsWith(VerifyMessage, <<"C", "o", "n", "f", "i", "g">>)

(* ------------------------------------------------------------------ *)
(* C20                                                                 *)
(* ------------------------------------------------------------------ *)

\* the message of what kc.loadFromDefault() threw
OriginalMessage ==
  IF Val(init.caught).isError THEN Val(init.caught).message
  ELSE L_UnknownError

\* C20: when loading the kubeconfig fails, initializeK8sClients rejects
\* with "Failed to load kubeconfig: <original message>" and the advice to
\* ensure a valid kubeconfig exists, no API client is created and no
\* connectivity call is made.
C20_KubeconfigFailure ==
  IsSome(init.caught) =>
    /\ init.pc = "rejected"
    /\ Val(init.error).isError
    /\ StartsWith(InitializeMessage, L_FailedToLoad \o OriginalMessage)
    /\ Includes(InitializeMessage, L_EnsureKubeconfig)
    /\ init.clients = 0
    /\ verify.pc = "idle"
    /\ api = "none"

\* the start of the server stopped by a missing kubeconfig file
C20_Witness ==
  /\ entry = "startServer"
  /\ init.caught = Some(Error(E_enoent))
  /\ init.pc = "rejected"
  /\ server = "exited"

(* ------------------------------------------------------------------ *)
(* C29                                                                 *)
(* ------------------------------------------------------------------ *)

ApiSucceedsNow == api = "pending" /\ api' = "fulfilled"
ApiFailsNow == api = "pending" /\ api' = "rejected"
TimerExpiresNow == timer = "armed" /\ timer' = "fired"

\* the first of the two events decides the outcome
FirstEventDecides ==
  verify.pc = "racing" =>
    /\ ApiSucceedsNow => verify'.pc = "resolved"
    /\ ApiFailsNow => verify'.pc = "rejected"
    /\ TimerExpiresNow =>
         /\ verify'.pc = "rejected"
         /\ Includes(Val(verify'.error).message, L_ConnectionTimeout)

\* the second event changes neither the outcome nor the caller
LaterEventIgnored ==
  VerifySettled /\ (ApiSucceedsNow \/ ApiFailsNow \/ TimerExpiresNow) =>
    /\ verify' = verify
    /\ UNCHANGED <<init, health, server, exitCode>>

\* C28: verifyK8sConnectivity settles exactly once, decided by whichever
\* of API completion and timer expiry happens first; a timer expiring
\* after a success does not turn it into a failure nor reach the caller,
\* and an API answer after the timeout does not change the timeout error.
C28_SettlesOnce ==
  /\ [][FirstEventDecides]_vars
  /\ [][LaterEventIgnored]_vars
  /\ [][VerifySettled => verify' = verify]_vars

\* the timer ran out after the call had succeeded and the clients had
\* been returned
C28_Witness ==
  /\ verify.pc = "resolved"
  /\ api = "fulfilled"
  /\ timer = "fired"
  /\ init.pc = "resolved"

(* ------------------------------------------------------------------ *)
(* The configuration module: configSchema, validateConfig, loadConfig, *)
(* getConfig and resetConfig                                           *)
(* ------------------------------------------------------------------ *)

\* the environment variables configSchema reads
N_PORT ==
  <<"P", "O", "R", "T">>
N_NODE_ENV ==
  <<"N", "O", "D", "E", "_", "E", "N", "V">>
N_DEFAULT_NAMESPACE ==
  <<"D", "E", "F", "A", "U", "L", "T", "_", "N", "A", "M", "E", "S", "P", "A",
    "C", "E">>
N_K8S_TIMEOUT ==
  <<"K", "8", "S", "_", "T", "I", "M", "E", "O", "U", "T">>
N_RATE_LIMIT_WINDOW_MS ==
  <<"R", "A", "T", "E", "_", "L", "I", "M", "I", "T", "_", "W", "I", "N", "D",
    "O", "W", "_", "M", "S">>
N_RATE_LIMIT_MAX_REQUESTS ==
  <<"R", "A", "T", "E", "_", "L", "I", "M", "I", "T", "_", "M", "A", "X", "_",
    "R", "E", "Q", "U", "E", "S", "T", "S">>
N_CORS_ORIGINS ==
  <<"C", "O", "R", "S", "_", "O", "R", "I", "G", "I", "N", "S">>
N_LOG_LEVEL ==
  <<"L", "O", "G", "_", "L", "E", "V", "E", "L">>
N_LOG_FORMAT ==
  <<"L", "O", "G", "_", "F", "O", "R", "M", "A", "T">>
N_SHUTDOWN_TIMEOUT_MS ==
  <<"S", "H", "U", "T", "D", "O", "W", "N", "_", "T", "I", "M", "E", "O", "U",
    "T", "_", "M", "S">>
N_DEFAULT_PAGE_SIZE ==
  <<"D", "E", "F", "A", "U", "L", "T", "_", "P", "A", "G", "E", "_", "S", "I",
    "Z", "E">>
N_MAX_PAGE_SIZE ==
  <<"M", "A", "X", "_", "P", "A", "G", "E", "_", "S", "I", "Z", "E">>
\* the defaults and the enum options of configSchema
D_3000 ==
  <<"3", "0", "0", "0">>
D_5000 ==
  <<"5", "0", "0", "0">>
D_900000 ==
  <<"9", "0", "0", "0", "0", "0">>
D_30000 ==
  <<"3", "0", "0", "0", "0">>
D_1000 ==
  <<"1", "0", "0", "0">>
D_default ==
  <<"d", "e", "f", "a", "u", "l", "t">>
D_star ==
  <<"*">>
O_development ==
  <<"d", "e", "v", "e", "l", "o", "p", "m", "e", "n", "t">>
O_production ==
  <<"p", "r", "o", "d", "u", "c", "t", "i", "o", "n">>
O_test ==
  <<"t", "e", "s", "t">>
O_debug ==
  <<"d", "e", "b", "u", "g">>
O_info ==
  <<"i", "n", "f", "o">>
O_warn ==
  <<"w", "a", "r", "n">>
O_error ==
  <<"e", "r", "r", "o", "r">>
O_json ==
  <<"j", "s", "o", "n">>
O_text ==
  <<"t", "e", "x", "t">>
\* the messages of configSchema and validateConfig
M_MustBeNumber ==
  <<" ", "m", "u", "s", "t", " ", "b", "e", " ", "a", " ", "v", "a", "l", "i",
    "d", " ", "n", "u", "m", "b", "e", "r">>
M_NamespaceEmpty ==
  <<"D", "E", "F", "A", "U", "L", "T", "_", "N", "A", "M", "E", "S", "P", "A",
    "C", "E", " ", "c", "a", "n", "n", "o", "t", " ", "b", "e", " ", "e", "m",
    "p", "t", "y">>
M_ValidationFailed ==
  <<"C", "o", "n", "f", "i", "g", "u", "r", "a", "t", "i", "o", "n", " ", "v",
    "a", "l", "i", "d", "a", "t", "i", "o", "n", " ", "f", "a", "i", "l", "e",
    "d", ":", "\n">>
M_IssueStart ==
  <<" ", " ", "-", " ">>
M_IssueColon ==
  <<":", " ">>
M_PleaseCheck ==
  <<"\n", "\n", "P", "l", "e", "a", "s", "e", " ", "c", "h", "e", "c", "k",
    " ", "y", "o", "u", "r", " ", "e", "n", "v", "i", "r", "o", "n", "m", "e",
    "n", "t", " ", "v", "a", "r", "i", "a", "b", "l", "e", "s", " ", "a", "n",
    "d", " ", "e", "n", "s", "u", "r", "e", " ", "a", "l", "l", " ", "r", "e",
    "q", "u", "i", "r", "e", "d", " ", "v", "a", "l", "u", "e", "s", " ", "a",
    "r", "e", " ", "s", "e", "t", " ", "c", "o", "r", "r", "e", "c", "t", "l",
    "y", ".">>
\* the message of zod's own issue for a value outside an enum
M_InvalidEnum ==
  <<"I", "n", "v", "a", "l", "i", "d", " ", "e", "n", "u", "m", " ", "v", "a",
    "l", "u", "e">>
\* values of environment variables
V_8080 ==
  <<"8", "0", "8", "0">>
V_007 ==
  <<"0", "0", "7">>
V_staging ==
  <<"s", "t", "a", "g", "i", "n", "g">>
V_origins ==
  <<" ", "h", "t", "t", "p", "s", ":", "/", "/", "a", ".", "e", "x", "a", "m",
    "p", "l", "e", " ", ",", " ", "b">>
V_origin_a ==
  <<"h", "t", "t", "p", "s", ":", "/", "/", "a", ".", "e", "x", "a", "m", "p",
    "l", "e">>
V_origin_b ==
  <<"b">>
V_prod ==
  <<"p", "r", "o", "d">>

\* Array.prototype.join on the lines of the issues
Newline == <<"\n">>

\* /^\d+$/.test(str)
AllDigits(str) == Len(str) > 0 /\ \A i \in 1..Len(str) : IsDigit(str[i])

\* Number(str) for a string of digits
NumberOfDigits(str) == DigitsValue(str)

\* String.prototype.trim()
WhiteSpace == {" ", "\t", "\n", "\r"}
RECURSIVE TrimEnd(_)
TrimEnd(str) ==
  IF Len(str) > 0 /\ str[Len(str)] \in WhiteSpace
  THEN TrimEnd(SubSeq(str, 1, Len(str) - 1))
  ELSE str
RECURSIVE TrimStart(_)
TrimStart(str) ==
  IF Len(str) > 0 /\ str[1] \in WhiteSpace THEN TrimStart(Tail(str)) ELSE str
Trim(str) == TrimEnd(TrimStart(str))

\* the outcome of parsing one variable: a value, or the message of an issue
Parsed(value) == [ok |-> TRUE, value |-> value, message |-> Empty]
Issue(message) == [ok |-> FALSE, value |-> Empty, message |-> message]

\* process.env[name], or the schema's default when the variable is not set
RawValue(env, name, default) ==
  IF name \in DOMAIN env THEN env[name] ELSE default

\* a bug that reads the leading digits the way parseInt does
ParseNumber_parseInt(env, name, default) ==
  LET raw == RawValue(env, name, default)
  IN IF Len(DigitPrefix(raw)) > 0 THEN Parsed(DigitsValue(DigitPrefix(raw)))
     ELSE Issue(name \o M_MustBeNumber)

\* z.string().regex(/^\d+$/, '<name> must be a valid number')
\*   .transform(Number).default(default)
ParseNumber(env, name, default) ==
  LET raw == RawValue(env, name, default)
  IN IF AllDigits(raw) THEN Parsed(NumberOfDigits(raw))
     ELSE Issue(name \o M_MustBeNumber)

\* z.enum(options).default(default)
ParseEnum(env, name, options, default) ==
  LET raw == RawValue(env, name, default)
  IN IF raw \in options THEN Parsed(raw) ELSE Issue(M_InvalidEnum)

\* z.string().min(1, 'DEFAULT_NAMESPACE cannot be empty').default('default')
ParseNamespace(env) ==
  LET raw == RawValue(env, N_DEFAULT_NAMESPACE, D_default)
  IN IF Len(raw) >= 1 THEN Parsed(raw) ELSE Issue(M_NamespaceEmpty)

\* a bug that forgets to trim the origins
ParseOrigins_untrimmed(env) ==
  Parsed(split(RawValue(env, N_CORS_ORIGINS, D_star), Comma))

\* z.string().transform(s => s.split(',').map(origin => origin.trim()))
\*   .default('*')
ParseOrigins(env) ==
  LET parts == split(RawValue(env, N_CORS_ORIGINS, D_star), Comma)
  IN Parsed([i \in DOMAIN parts |-> Trim(parts[i])])

\* the variables in the order of the keys of configSchema
SchemaKeys ==
  <<N_PORT, N_NODE_ENV, N_DEFAULT_NAMESPACE, N_K8S_TIMEOUT,
    N_RATE_LIMIT_WINDOW_MS, N_RATE_LIMIT_MAX_REQUESTS, N_CORS_ORIGINS,
    N_LOG_LEVEL, N_LOG_FORMAT, N_SHUTDOWN_TIMEOUT_MS, N_DEFAULT_PAGE_SIZE,
    N_MAX_PAGE_SIZE>>

\* configSchema: the outcome of each key for the environment
ParseKey(env, name) ==
  CASE name = N_PORT -> ParseNumber(env, name, D_3000)
    [] name = N_NODE_ENV ->
         ParseEnum(env, name, {O_development, O_production, O_test},
                   O_development)
    [] name = N_DEFAULT_NAMESPACE -> ParseNamespace(env)
    [] name = N_K8S_TIMEOUT -> ParseNumber(env, name, D_5000)
    [] name = N_RATE_LIMIT_WINDOW_MS -> ParseNumber(env, name, D_900000)
    [] name = N_RATE_LIMIT_MAX_REQUESTS -> ParseNumber(env, name, S_100)
    [] name = N_CORS_ORIGINS -> ParseOrigins(env)
    [] name = N_LOG_LEVEL ->
         ParseEnum(env, name, {O_debug, O_info, O_warn, O_error}, O_info)
    [] name = N_LOG_FORMAT -> ParseEnum(env, name, {O_json, O_text}, O_json)
    [] name = N_SHUTDOWN_TIMEOUT_MS -> ParseNumber(env, name, D_30000)
    [] name = N_DEFAULT_PAGE_SIZE -> ParseNumber(env, name, S_100)
    [] name = N_MAX_PAGE_SIZE -> ParseNumber(env, name, D_1000)

\* error.issues of the ZodError: the keys that failed, in schema order
RECURSIVE IssuesFrom(_, _)
IssuesFrom(env, i) ==
  IF i > Len(SchemaKeys) THEN <<>>
  ELSE (IF ParseKey(env, SchemaKeys[i]).ok THEN <<>>
        ELSE <<[path |-> SchemaKeys[i],
                message |-> ParseKey(env, SchemaKeys[i]).message]>>)
         \o IssuesFrom(env, i + 1)

\* `  - ${path}: ${issue.message}`
IssueLine(issue) ==
  M_IssueStart \o issue.path \o M_IssueColon \o issue.message

\* a bug that reports the first issue only
ValidationMessage_first(issues) ==
  M_ValidationFailed \o IssueLine(issues[1]) \o M_PleaseCheck

\* the message of the Error validateConfig throws for a ZodError
ValidationMessage(issues) ==
  M_ValidationFailed
    \o join([i \in DOMAIN issues |-> IssueLine(issues[i])], Newline)
    \o M_PleaseCheck

\* what a call returns or throws
Returned(value) == [value |-> Some(value), error |-> None]
Threw(error) == [value |-> None, error |-> Some(error)]

\* validateConfig(env): the AppConfig object, or the Error thrown
validateConfig(env) ==
  LET issues == IssuesFrom(env, 1)
  IN IF Len(issues) > 0 THEN Threw(Error(ValidationMessage(issues)))
     ELSE Returned(
            [port |-> ParseKey(env, N_PORT).value,
             nodeEnv |-> ParseKey(env, N_NODE_ENV).value,
             defaultNamespace |-> ParseKey(env, N_DEFAULT_NAMESPACE).value,
             k8sTimeout |-> ParseKey(env, N_K8S_TIMEOUT).value,
             rateLimitWindowMs |->
               ParseKey(env, N_RATE_LIMIT_WINDOW_MS).value,
             rateLimitMaxRequests |->
               ParseKey(env, N_RATE_LIMIT_MAX_REQUESTS).value,
             corsOrigins |-> ParseKey(env, N_CORS_ORIGINS).value,
             logLevel |-> ParseKey(env, N_LOG_LEVEL).value,
             logFormat |-> ParseKey(env, N_LOG_FORMAT).value,
             shutdownTimeoutMs |-> ParseKey(env, N_SHUTDOWN_TIMEOUT_MS).value,
             defaultPageSize |-> ParseKey(env, N_DEFAULT_PAGE_SIZE).value,
             maxPageSize |-> ParseKey(env, N_MAX_PAGE_SIZE).value])

\* what process.env can hold for a variable: well-formed and ill-formed
\* values of its kind
NumericKeys ==
  {N_PORT, N_K8S_TIMEOUT, N_RATE_LIMIT_WINDOW_MS, N_RATE_LIMIT_MAX_REQUESTS,
   N_SHUTDOWN_TIMEOUT_MS, N_DEFAULT_PAGE_SIZE, N_MAX_PAGE_SIZE}
EnumKeys == {N_NODE_ENV, N_LOG_LEVEL, N_LOG_FORMAT}
EnvKeys == {SchemaKeys[i] : i \in DOMAIN SchemaKeys}
EnvValues(name) ==
  CASE name \in NumericKeys -> {V_8080, V_007, S_abc, S_12abc, Empty}
    [] name = N_NODE_ENV -> {O_production, O_test, V_staging, Empty}
    [] name = N_LOG_LEVEL -> {O_debug, O_error, O_json}
    [] name = N_LOG_FORMAT -> {O_text, O_debug}
    [] name = N_DEFAULT_NAMESPACE -> {V_prod, Empty}
    [] name = N_CORS_ORIGINS -> {V_origins, V_origin_a, Empty}

\* the environments that set at most n of the keys
RECURSIVE EnvsOver(_, _)
EnvsOver(keys, n) ==
  IF n = 0 \/ keys = {} THEN {EmptyMap}
  ELSE LET k == CHOOSE x \in keys : TRUE
       IN EnvsOver(keys \ {k}, n)
            \cup {Put(e, k, v) : e \in EnvsOver(keys \ {k}, n - 1),
                                 v \in EnvValues(k)}
Envs == EnvsOver(EnvKeys, MaxEnvVars)

\* the environments of a process that changes its variables between calls
SingletonEnvs ==
  {EmptyMap, Put(EmptyMap, N_PORT, V_8080), Put(EmptyMap, N_PORT, S_abc),
   Put(EmptyMap, N_NODE_ENV, O_production)}

\* what a call made: its name and what it returned or threw
Outcome(call, outcome) == Some([call |-> call, outcome |-> outcome])

\* one call of validateConfig(process.env)
InitValidate ==
  /\ NoRequest
  /\ NoCallers
  /\ NoProcess
  /\ NoHttp
  /\ processEnv \in Envs
  /\ result = None
  /\ calls = 0

CallValidateConfig ==
  /\ calls = 0
  /\ calls' = 1
  /\ result' = Outcome("validateConfig", validateConfig(processEnv))
  /\ UNCHANGED <<processEnv, requestVars, callerVars, processVars,
                 httpVars>>

NextValidate == CallValidateConfig

SpecValidate == InitValidate /\ [][NextValidate]_vars

\* calls of getConfig, loadConfig and resetConfig in any order, with
\* the environment changing in between
InitConfig ==
  /\ NoRequest
  /\ NoCallers
  /\ NoProcess
  /\ NoHttp
  /\ processEnv \in SingletonEnvs
  /\ result = None
  /\ calls = 0

\* loadConfig(): validateConfig(process.env)
loadConfig(env) == validateConfig(env)

\* a bug that validates the environment on every call
getConfig_reload(instance, env) ==
  [outcome |-> loadConfig(env),
   instance |-> IF IsSome(loadConfig(env).value)
                THEN loadConfig(env).value ELSE instance]

\* getConfig(): the instance, loaded first when there is none; what it
\* returns or throws and the instance it leaves
getConfig(instance, env) ==
  IF ~IsSome(instance)
  THEN [outcome |-> loadConfig(env),
        instance |-> loadConfig(env).value]
  ELSE [outcome |-> Returned(Val(instance)), instance |-> instance]

CallGetConfig ==
  /\ calls < MaxConfigCalls
  /\ calls' = calls + 1
  /\ result' =
       Outcome("getConfig", getConfig(configInstance, processEnv).outcome)
  /\ configInstance' = getConfig(configInstance, processEnv).instance
  /\ UNCHANGED <<processEnv, startupVars, requestVars, callerVars,
                 httpVars>>

CallLoadConfig ==
  /\ calls < MaxConfigCalls
  /\ calls' = calls + 1
  /\ result' = Outcome("loadConfig", loadConfig(processEnv))
  /\ UNCHANGED <<processEnv, processVars, requestVars, callerVars,
                 httpVars>>

\* resetConfig(): configInstance = null
CallResetConfig ==
  /\ calls < MaxConfigCalls
  /\ calls' = calls + 1
  /\ result' = Outcome("resetConfig", Returned(Empty))
  /\ configInstance' = None
  /\ UNCHANGED <<processEnv, startupVars, requestVars, callerVars,
                 httpVars>>

\* the process assigns or deletes variables of process.env
ChangeEnv ==
  /\ calls < MaxConfigCalls
  /\ processEnv' \in SingletonEnvs \ {processEnv}
  /\ UNCHANGED <<result, calls, processVars, requestVars, callerVars,
                 httpVars>>

NextConfig ==
  \/ CallGetConfig
  \/ CallLoadConfig
  \/ CallResetConfig
  \/ ChangeEnv

SpecConfig == InitConfig /\ [][NextConfig]_vars

(* ------------------------------------------------------------------ *)
(* validateConfig: the errors it throws and the values it returns      *)
(* ------------------------------------------------------------------ *)

\* the texts a configuration error is recognised by
L_ValidationFailed ==
  <<"C", "o", "n", "f", "i", "g", "u", "r", "a", "t", "i", "o", "n", " ", "v",
    "a", "l", "i", "d", "a", "t", "i", "o", "n", " ", "f", "a", "i", "l", "e",
    "d">>
L_MustBeNumber ==
  <<" ", "m", "u", "s", "t", " ", "b", "e", " ", "a", " ", "v", "a", "l", "i",
    "d", " ", "n", "u", "m", "b", "e", "r">>
L_NamespaceEmpty ==
  <<"D", "E", "F", "A", "U", "L", "T", "_", "N", "A", "M", "E", "S", "P", "A",
    "C", "E", " ", "c", "a", "n", "n", "o", "t", " ", "b", "e", " ", "e", "m",
    "p", "t", "y">>
L_PleaseCheck ==
  <<"P", "l", "e", "a", "s", "e", " ", "c", "h", "e", "c", "k", " ", "y", "o",
    "u", "r", " ", "e", "n", "v", "i", "r", "o", "n", "m", "e", "n", "t", " ",
    "v", "a", "r", "i", "a", "b", "l", "e", "s", " ", "a", "n", "d", " ", "e",
    "n", "s", "u", "r", "e", " ", "a", "l", "l", " ", "r", "e", "q", "u", "i",
    "r", "e", "d", " ", "v", "a", "l", "u", "e", "s", " ", "a", "r", "e", " ",
    "s", "e", "t", " ", "c", "o", "r", "r", "e", "c", "t", "l", "y", ".">>

EndsWith(str, suffix) ==
  /\ Len(suffix) <= Len(str)
  /\ SubSeq(str, Len(str) - Len(suffix) + 1, Len(str)) = suffix

\* validateConfig has been called: what it threw and what it returned
Validated == IsSome(result) /\ Val(result).call = "validateConfig"
Thrown == Val(result).outcome.error
Config == Val(result).outcome.value
ThrownMessage == Val(Thrown).message

\* the variables of each kind and the values the schema allows
NumericVariables ==
  {N_PORT, N_K8S_TIMEOUT, N_RATE_LIMIT_WINDOW_MS, N_RATE_LIMIT_MAX_REQUESTS,
   N_SHUTDOWN_TIMEOUT_MS, N_DEFAULT_PAGE_SIZE, N_MAX_PAGE_SIZE}
Allowed(name) ==
  CASE name = N_NODE_ENV -> {O_development, O_production, O_test}
    [] name = N_LOG_LEVEL -> {O_debug, O_info, O_warn, O_error}
    [] name = N_LOG_FORMAT -> {O_json, O_text}
EnumVariables == {N_NODE_ENV, N_LOG_LEVEL, N_LOG_FORMAT}
Provided == DOMAIN processEnv
OnlyDigits(str) ==
  \A i \in 1..Len(str) : str[i] \in {DigitChars[d] : d \in 1..10}

\* the provided variables of each kind that are ill-formed and not empty
BadNumbers ==
  {k \in Provided \cap NumericVariables :
     processEnv[k] # Empty /\ ~OnlyDigits(processEnv[k])}
BadEnums ==
  {k \in Provided \cap EnumVariables :
     processEnv[k] # Empty /\ processEnv[k] \notin Allowed(k)}
EmptyNamespace ==
  N_DEFAULT_NAMESPACE \in Provided /\ processEnv[N_DEFAULT_NAMESPACE] = Empty

\* C21: for an environment with a numeric variable that is a non-empty
\* string not made only of digits, an enum variable that is a non-empty
\* string outside its allowed set, or an empty DEFAULT_NAMESPACE,
\* validateConfig throws and returns no configuration; the message says
\* '<VAR> must be a valid number' for each such numeric variable,
\* 'Configuration validation failed' for such an enum variable, and
\* 'DEFAULT_NAMESPACE cannot be empty' for the empty namespace
C21_InvalidEnvironmentThrows ==
  Validated /\ (BadNumbers # {} \/ BadEnums # {} \/ EmptyNamespace) =>
    /\ IsSome(Thrown) /\ Val(Thrown).isError
    /\ ~IsSome(Config)
    /\ \A k \in BadNumbers : Includes(ThrownMessage, k \o L_MustBeNumber)
    /\ BadEnums # {} => Includes(ThrownMessage, L_ValidationFailed)
    /\ EmptyNamespace => Includes(ThrownMessage, L_NamespaceEmpty)

\* PORT is '12abc' and LOG_LEVEL is 'json': the call threw, naming PORT
C21_Witness ==
  /\ Validated
  /\ processEnv = Put(Put(EmptyMap, N_PORT, S_12abc), N_LOG_LEVEL, O_json)
  /\ IsSome(Thrown) /\ ~IsSome(Config)
  /\ Includes(ThrownMessage, N_PORT \o L_MustBeNumber)

\* the provided variables the schema rejects, the empty ones included
Invalid ==
  {k \in Provided :
     \/ k \in NumericVariables
          /\ (processEnv[k] = Empty \/ ~OnlyDigits(processEnv[k]))
     \/ k \in EnumVariables /\ processEnv[k] \notin Allowed(k)
     \/ k = N_DEFAULT_NAMESPACE /\ processEnv[k] = Empty}

\* C22: when several variables are invalid at once, validateConfig throws
\* one error whose message starts with 'Configuration validation failed',
\* names every invalid variable, and ends with the guidance 'Please check
\* your environment variables ...'
C22_EveryInvalidVariableNamed ==
  Validated /\ Cardinality(Invalid) >= 2 =>
    /\ IsSome(Thrown) /\ Val(Thrown).isError
    /\ ~IsSome(Config)
    /\ StartsWith(ThrownMessage, L_ValidationFailed)
    /\ \A k \in Invalid :
         Includes(ThrownMessage, M_IssueStart \o k \o M_IssueColon)
    /\ EndsWith(ThrownMessage, L_PleaseCheck)

\* K8S_TIMEOUT is 'abc' and NODE_ENV is 'staging': both are named
C22_Witness ==
  /\ Validated
  /\ processEnv =
       Put(Put(EmptyMap, N_K8S_TIMEOUT, S_abc), N_NODE_ENV, V_staging)
  /\ Includes(ThrownMessage, N_K8S_TIMEOUT)
  /\ Includes(ThrownMessage, N_NODE_ENV)

\* the value a field takes: the provided one converted, or the default
NumberField(name, default) ==
  IF name \in Provided THEN DigitsValue(processEnv[name]) ELSE default
TextField(name, default) ==
  IF name \in Provided THEN processEnv[name] ELSE default
OriginsField ==
  IF N_CORS_ORIGINS \in Provided
  THEN LET parts == split(processEnv[N_CORS_ORIGINS], Comma)
       IN [i \in DOMAIN parts |-> Trim(parts[i])]
  ELSE <<D_star>>

\* C23: for an environment whose provided variables are all valid,
\* validateConfig returns a configuration in which each field is the
\* provided value (digit strings as the number they denote, CORS_ORIGINS
\* split on ',' with each entry trimmed) or, for an absent variable, its
\* default, whatever the other variables are
C23_ValuesAndDefaults ==
  Validated /\ Invalid = {} =>
    /\ ~IsSome(Thrown)
    /\ IsSome(Config)
    /\ Val(Config) =
         [port |-> NumberField(N_PORT, 3000),
          nodeEnv |-> TextField(N_NODE_ENV, O_development),
          defaultNamespace |-> TextField(N_DEFAULT_NAMESPACE, D_default),
          k8sTimeout |-> NumberField(N_K8S_TIMEOUT, 5000),
          rateLimitWindowMs |-> NumberField(N_RATE_LIMIT_WINDOW_MS, 900000),
          rateLimitMaxRequests |->
            NumberField(N_RATE_LIMIT_MAX_REQUESTS, 100),
          corsOrigins |-> OriginsField,
          logLevel |-> TextField(N_LOG_LEVEL, O_info),
          logFormat |-> TextField(N_LOG_FORMAT, O_json),
          shutdownTimeoutMs |-> NumberField(N_SHUTDOWN_TIMEOUT_MS, 30000),
          defaultPageSize |-> NumberField(N_DEFAULT_PAGE_SIZE, 100),
          maxPageSize |-> NumberField(N_MAX_PAGE_SIZE, 1000)]

\* CORS_ORIGINS is ' https://a.example , b' and PORT is '007': the origins
\* are the two trimmed entries, the port is 7, the rest are defaults
C23_Witness ==
  /\ Validated
  /\ processEnv = Put(Put(EmptyMap, N_CORS_ORIGINS, V_origins), N_PORT, V_007)
  /\ IsSome(Config)
  /\ Val(Config).corsOrigins = <<V_origin_a, V_origin_b>>
  /\ Val(Config).port = 7
  /\ Val(Config).k8sTimeout = 5000

(* ------------------------------------------------------------------ *)
(* The configuration singleton                                         *)
(* ------------------------------------------------------------------ *)

\* the step is a call of the named function
Calls(name) == calls' = calls + 1 /\ Val(result').call = name
CallOutcome == Val(result').outcome

\* the cached instance changes only when getConfig fills an empty cache
\* with the configuration of the current environment, or resetConfig
\* empties it
CacheLoadedOnce ==
  configInstance' # configInstance =>
    \/ /\ Calls("getConfig")
       /\ configInstance = None
       /\ configInstance' = validateConfig(processEnv).value
    \/ Calls("resetConfig") /\ configInstance' = None

\* getConfig returns the cached instance whatever the environment is now
\* and validates the environment only when the cache is empty; a failed
\* validation is thrown and leaves the cache empty
GetConfigUsesCache ==
  Calls("getConfig") =>
    IF IsSome(configInstance)
    THEN CallOutcome = Returned(Val(configInstance))
    ELSE /\ CallOutcome = validateConfig(processEnv)
         /\ IsSome(CallOutcome.error) => configInstance' = None

\* loadConfig validates the current environment and leaves the cache
LoadConfigValidatesAgain ==
  Calls("loadConfig") =>
    /\ CallOutcome = validateConfig(processEnv)
    /\ configInstance' = configInstance

\* a change of the environment leaves the cache
EnvChangeUnobserved ==
  processEnv' # processEnv => configInstance' = configInstance

\* after getConfig returned a configuration that one is cached, and after
\* getConfig threw or resetConfig ran the cache is empty
CacheIsLastReturned ==
  IsSome(result) =>
    /\ Val(result).call = "getConfig" =>
         configInstance = Val(result).outcome.value
    /\ Val(result).call = "resetConfig" => configInstance = None

\* C27: the singleton is loaded at most once between resets: getConfig
\* returns the configuration validated at the first getConfig call since
\* the last resetConfig, whatever the environment has become; loadConfig
\* always validates the current environment and never populates or
\* changes the cache; a getConfig call that fails validation leaves the
\* cache empty, so the next call validates again
C27_LoadedOncePerReset ==
  /\ [](CacheIsLastReturned)
  /\ [][CacheLoadedOnce]_vars
  /\ [][GetConfigUsesCache]_vars
  /\ [][LoadConfigValidatesAgain]_vars
  /\ [][EnvChangeUnobserved]_vars

\* getConfig has returned the configuration loaded earlier in an
\* environment that has since become invalid
C27_Witness ==
  /\ calls >= 2
  /\ IsSome(result) /\ Val(result).call = "getConfig"
  /\ IsSome(Val(result).outcome.value)
  /\ processEnv = Put(EmptyMap, N_PORT, S_abc)
  /\ configInstance = Val(result).outcome.value
  /\ Val(configInstance).port = 3000

(* ------------------------------------------------------------------ *)
(* The HTTP API: controllers, services, errorMiddleware, GET /health   *)
(* ------------------------------------------------------------------ *)

\* the texts of the responses
T_ValidationError ==
  <<"V", "a", "l", "i", "d", "a", "t", "i", "o", "n", " ", "e", "r", "r", "o",
    "r">>
T_InternalServerError ==
  <<"I", "n", "t", "e", "r", "n", "a", "l", " ", "s", "e", "r", "v", "e", "r",
    " ", "e", "r", "r", "o", "r">>
T_ok ==
  <<"o", "k">>
T_PodCreated ==
  <<"P", "o", "d", " ", "c", "r", "e", "a", "t", "e", "d", " ", "s", "u", "c",
    "c", "e", "s", "s", "f", "u", "l", "l", "y">>
T_ServiceCreated ==
  <<"S", "e", "r", "v", "i", "c", "e", " ", "c", "r", "e", "a", "t", "e", "d",
    " ", "s", "u", "c", "c", "e", "s", "s", "f", "u", "l", "l", "y">>
T_IngressCreated ==
  <<"I", "n", "g", "r", "e", "s", "s", " ", "c", "r", "e", "a", "t", "e", "d",
    " ", "s", "u", "c", "c", "e", "s", "s", "f", "u", "l", "l", "y">>
\* the names, messages and reasons of errors
T_ZodError ==
  <<"Z", "o", "d", "E", "r", "r", "o", "r">>
T_Error ==
  <<"E", "r", "r", "o", "r">>
T_boom ==
  <<"b", "o", "o", "m">>
T_AlreadyExists ==
  <<"A", "l", "r", "e", "a", "d", "y", "E", "x", "i", "s", "t", "s">>
T_alreadyExists ==
  <<"p", "o", "d", "s", " ", "\"", "w", "e", "b", "\"", " ", "a", "l", "r",
    "e", "a", "d", "y", " ", "e", "x", "i", "s", "t", "s">>

\* an error object: its name and message, and the statusCode, code and
\* body an ApiError can carry
ApiError(name, message, statusCode, code, body) ==
  [name |-> name, message |-> message, statusCode |-> statusCode,
   code |-> code, body |-> body]

\* the ZodError a schema's parse throws
ZodError == ApiError(T_ZodError, T_boom, None, None, None)

\* a response: res.status(status).json(json); the members a handler does
\* not write are absent
NoJson ==
  [success |-> None, error |-> None, reason |-> None, details |-> None,
   message |-> None, data |-> None, status |-> None]
Response(status, json) == [status |-> status, json |-> json]

\* JavaScript truthiness of an optional number and an optional string
TruthyNumber(o) == IsSome(o) /\ Val(o) # 0
TruthyString(o) == IsSome(o) /\ Val(o) # Empty

\* err.body?.message
BodyMessage(err) == IF IsSome(err.body) THEN Val(err.body).message ELSE None

\* a bug that looks at the name of the error first
errorMiddleware_nameFirst(err) ==
  IF err.name = T_ZodError
  THEN Response(400, [NoJson EXCEPT !.success = Some(FALSE),
                                    !.error = Some(T_ValidationError),
                                    !.details = Some(err)])
  ELSE Response(500, [NoJson EXCEPT !.success = Some(FALSE),
                                    !.error = Some(T_InternalServerError)])

\* errorMiddleware(err, _req, res, _next): the response it sends; it
\* never calls _next
errorMiddleware(err) ==
  IF TruthyString(BodyMessage(err))
  THEN Response(IF TruthyNumber(err.code) THEN Val(err.code)
                ELSE IF TruthyNumber(err.statusCode) THEN Val(err.statusCode)
                ELSE 500,
                [NoJson EXCEPT !.success = Some(FALSE),
                               !.error = BodyMessage(err),
                               !.reason = Val(err.body).reason])
  ELSE IF err.name = T_ZodError
  THEN Response(400, [NoJson EXCEPT !.success = Some(FALSE),
                                    !.error = Some(T_ValidationError),
                                    !.details = Some(err)])
  ELSE Response(IF TruthyNumber(err.statusCode) THEN Val(err.statusCode)
                ELSE 500,
                [NoJson EXCEPT !.success = Some(FALSE),
                               !.error = IF err.message # Empty
                                         THEN Some(err.message)
                                         ELSE Some(T_InternalServerError)])

\* a bug that lets an invalid body through
createSchemaParse_lenient(body) ==
  Returned([namespace |-> IF IsSome(body.namespace) THEN Val(body.namespace)
                          ELSE D_default])

\* createPodSchema / createServiceSchema / createIngressSchema .parse:
\* the input with namespace defaulted, or the ZodError thrown
createSchemaParse(body) ==
  IF body.valid
  THEN Returned([namespace |-> IF IsSome(body.namespace)
                               THEN Val(body.namespace) ELSE D_default])
  ELSE Threw(ZodError)

\* the create call a service makes: createNamespaced<Kind>(
\*   input.namespace || "default", {metadata: {namespace: input.namespace}})
CreateCall(kind, validated) ==
  [kind |-> kind,
   namespace |-> IF validated.namespace # Empty THEN validated.namespace
                 ELSE D_default,
   body |-> [metadata |-> [namespace |-> validated.namespace]]]

\* the message of the 201 response of each controller
CreatedMessage(kind) ==
  CASE kind = "Pod" -> T_PodCreated
    [] kind = "Service" -> T_ServiceCreated
    [] kind = "Ingress" -> T_IngressCreated

\* the requests, bodies and errors of the model
Kinds == {"Pod", "Service", "Ingress"}
Namespaces == {Empty, D_default, V_prod}
Bodies == [valid : BOOLEAN, namespace : Optional(Namespaces)]
ErrorBodies ==
  Optional([message : Optional({Empty, T_alreadyExists}),
            reason : Optional({T_AlreadyExists})])
ForwardedErrors ==
  {ApiError(name, message, statusCode, code, body) :
     name \in {T_Error, T_ZodError}, message \in {Empty, T_boom},
     statusCode \in Optional({0, 404}), code \in Optional({0, 409}),
     body \in ErrorBodies}

\* one request to the HTTP API: POST of a pod, service or ingress, GET
\* /health, or a route that fails with an error
InitHttp ==
  /\ NoRequest
  /\ NoCallers
  /\ NoProcess
  /\ NoConfigCalls
  /\ clusterHealthy \in BOOLEAN
  /\ \/ /\ route \in {"createPod", "createService", "createIngress"}
        /\ reqBody \in Bodies
     \/ /\ route \in {"health", "failing"}
        /\ reqBody = [valid |-> TRUE, namespace |-> None]
  /\ handler = "received"
  /\ serviceCalls = 0
  /\ clusterCalls = <<>>
  /\ forwarded = <<>>
  /\ nextCalls = 0
  /\ sent = <<>>

KindOf(r) ==
  CASE r = "createPod" -> "Pod"
    [] r = "createService" -> "Service"
    [] r = "createIngress" -> "Ingress"

\* next(error) in a controller: Express runs errorMiddleware, which sends
\* its response
Forward(err) ==
  /\ forwarded' = Append(forwarded, err)
  /\ sent' = Append(sent, errorMiddleware(err))
  /\ UNCHANGED nextCalls

\* the controller's createPod / createService / createIngress up to its
\* await: parse the body, then call the service, which sends the create
\* call to the cluster
CreateController ==
  /\ handler = "received"
  /\ route \in {"createPod", "createService", "createIngress"}
  /\ LET parsed == createSchemaParse(reqBody)
     IN IF IsSome(parsed.error)
        THEN /\ Forward(Val(parsed.error))
             /\ handler' = "done"
             /\ UNCHANGED <<serviceCalls, clusterCalls>>
        ELSE /\ serviceCalls' = serviceCalls + 1
             /\ clusterCalls' =
                  Append(clusterCalls,
                         CreateCall(KindOf(route), Val(parsed.value)))
             /\ handler' = "awaiting"
             /\ UNCHANGED <<forwarded, nextCalls, sent>>
  /\ UNCHANGED <<route, reqBody, clusterHealthy>>
  /\ UNCHANGED <<requestVars, callerVars, processVars, configVars>>

\* the cluster creates the resource: the controller answers 201
ClusterCreates ==
  /\ handler = "awaiting"
  /\ clusterHealthy
  /\ sent' =
       Append(sent,
              Response(201, [NoJson EXCEPT
                               !.success = Some(TRUE),
                               !.message = Some(CreatedMessage(KindOf(route))),
                               !.data = Some(clusterCalls[1].body)]))
  /\ handler' = "done"
  /\ UNCHANGED <<route, reqBody, clusterHealthy, serviceCalls, clusterCalls,
                 forwarded, nextCalls>>
  /\ UNCHANGED <<requestVars, callerVars, processVars, configVars>>

\* the create call rejects: the controller's catch forwards the error
ClusterRejects(err) ==
  /\ handler = "awaiting"
  /\ Forward(err)
  /\ handler' = "done"
  /\ UNCHANGED <<route, reqBody, clusterHealthy, serviceCalls, clusterCalls>>
  /\ UNCHANGED <<requestVars, callerVars, processVars, configVars>>

\* GET /health: res.json({status: "ok", timestamp})
HealthHandler ==
  /\ handler = "received"
  /\ route = "health"
  /\ sent' = Append(sent, Response(200, [NoJson EXCEPT !.status = Some(T_ok)]))
  /\ handler' = "done"
  /\ UNCHANGED <<route, reqBody, clusterHealthy, serviceCalls, clusterCalls,
                 forwarded, nextCalls>>
  /\ UNCHANGED <<requestVars, callerVars, processVars, configVars>>

\* a route or middleware passes an error to next
FailingHandler(err) ==
  /\ handler = "received"
  /\ route = "failing"
  /\ Forward(err)
  /\ handler' = "done"
  /\ UNCHANGED <<route, reqBody, clusterHealthy, serviceCalls, clusterCalls>>
  /\ UNCHANGED <<requestVars, callerVars, processVars, configVars>>

NextHttp ==
  \/ CreateController
  \/ ClusterCreates
  \/ \E err \in ForwardedErrors : ClusterRejects(err)
  \/ HealthHandler
  \/ \E err \in ForwardedErrors : FailingHandler(err)

SpecHttp == InitHttp /\ [][NextHttp]_vars

(* ------------------------------------------------------------------ *)
(* The HTTP API: validation failures, health, error responses and the  *)
(* namespace of a create call                                          *)
(* ------------------------------------------------------------------ *)

\* the status of a failed health check
L_unhealthy ==
  <<"u", "n", "h", "e", "a", "l", "t", "h", "y">>

CreateRoutes == {"createPod", "createService", "createIngress"}
Answered == handler = "done"

\* C24: for a create request (POST pods, services or ingresses) whose
\* body fails schema validation, the controller makes no call to the
\* service layer or the cluster, forwards the error to the error
\* middleware exactly once, and the client receives exactly one response:
\* 400 with success false and error 'Validation error'
C24_InvalidBodyRejected ==
  route \in CreateRoutes /\ ~reqBody.valid =>
    /\ serviceCalls = 0
    /\ clusterCalls = <<>>
    /\ Len(forwarded) <= 1
    /\ Len(sent) = Len(forwarded)
    /\ Answered =>
         /\ Len(forwarded) = 1
         /\ forwarded[1].name = T_ZodError
         /\ sent[1].status = 400
         /\ sent[1].json.success = Some(FALSE)
         /\ sent[1].json.error = Some(T_ValidationError)

\* an invalid ingress body has been answered with 400
C24_Witness ==
  /\ route = "createIngress"
  /\ ~reqBody.valid
  /\ Answered
  /\ serviceCalls = 0
  /\ Len(sent) = 1 /\ sent[1].status = 400

\* C25: GET /health returns 200 with a healthy status when the cluster
\* can be reached, and 503 with status 'unhealthy' when the connectivity
\* check fails
C25_HealthReflectsConnectivity ==
  route = "health" /\ Answered =>
    /\ Len(sent) = 1
    /\ IF clusterHealthy
       THEN sent[1].status = 200
       ELSE /\ sent[1].status = 503
            /\ sent[1].json.status = Some(L_unhealthy)

\* the error errorMiddleware was given and the response it sent
Err == forwarded[1]
Res == sent[1]
ErrStatusCodeOr500 ==
  IF TruthyNumber(Err.statusCode) THEN Val(Err.statusCode) ELSE 500

\* the rules as the code applies them: a member counts when it is truthy
\* (a number other than 0, a string other than '')
KubernetesRule ==
  /\ Res.status = (IF TruthyNumber(Err.code) THEN Val(Err.code)
                   ELSE ErrStatusCodeOr500)
  /\ Res.json.error = Val(Err.body).message
  /\ Res.json.reason = Val(Err.body).reason
ZodRule == Res.status = 400 /\ Res.json.error = Some(T_ValidationError)
GenericRule ==
  /\ Res.status = ErrStatusCodeOr500
  /\ Res.json.error = Some(IF Err.message # Empty THEN Err.message
                           ELSE T_InternalServerError)
  /\ Res.json.reason = None

ErrStatusCodeOr500AsClaimed ==
  IF IsSome(Err.statusCode) THEN Val(Err.statusCode) ELSE 500
KubernetesRuleAsClaimed ==
  /\ Res.status = (IF IsSome(Err.code) THEN Val(Err.code)
                   ELSE ErrStatusCodeOr500AsClaimed)
  /\ Res.json.error = Val(Err.body).message
  /\ Res.json.reason = Val(Err.body).reason
GenericRuleAsClaimed ==
  /\ Res.status = ErrStatusCodeOr500AsClaimed
  /\ Res.json.error = Some(IF Err.message # Empty THEN Err.message
                           ELSE T_InternalServerError)

C30_TargetIsMetadataNamespace ==
  \A i \in DOMAIN clusterCalls :
    clusterCalls[i].namespace = clusterCalls[i].body.metadata.namespace
====
